---- MODULE Spec2Model ----
(***************************************************************************)
(* Verification model of the streaming subsystem of Roo-Code-server:       *)
(*   - StreamingServer (WebSocket endpoint, connection registry,           *)
(*     heartbeat, inbound task commands, start/stop);                      *)
(*   - EventTransformer (ClineMessage -> StreamEvent[]).                   *)
(*                                                                         *)
(* Node runs every handler to completion on one event loop, so each        *)
(* handler (and each continuation after an await) is one atomic action.    *)
(* The transport (the ws and http libraries, the client, the OS ports) is  *)
(* the environment: its events are separate actions.                       *)
(***************************************************************************)
EXTENDS Integers, Sequences, FiniteSets, TLC

\* ------------------------------------------------------------------ bounds
MaxConn == 2
MaxCmd  == 2
MaxStop == 2
MaxPort == 3
MaxTs   == 2
MaxNow  == 1
MaxEmit == 2

Conns   == 1..MaxConn
CmdIds  == 1..MaxCmd
StopIds == 1..MaxStop
Ports   == 1..MaxPort

\* commandName values a client may put in a taskCommand frame: the two the
\* wire format names, and one the host handler does not know.
CommandNames == {"StartNewTask", "CancelTask", "Bogus"}

NoRange == [min |-> 0, max |-> 0]

VARIABLES
    config,             \* this.config: [port, portRange, heartbeatInterval]
                        \* (portRange = NoRange when undefined)
    portStatus,         \* environment: what binding each port gives: "free" | "inuse" | "denied"
    httpListening,      \* this.server.listening
    boundPort,          \* the port the listener is bound to, 0 when none
    wssState,           \* this.wss: "running" | "closing" | "closed"
    startPc,            \* the start() promise: "idle" | "probing" | "resolved" | "rejected"
    portToTry,          \* tryPort's argument while probing
    probed,             \* the ports start() has called listen() on, in order
    startError,         \* "none" | "exhausted" | "bind"
    stops,              \* the stop() calls made: a sequence of [pc, log, onStopped]
    heartbeatTimer,     \* the interval the timer of setupHeartbeat was armed
                        \* with while it is active, 0 once it is cleared
    taskCommandHandler, \* TRUE once setTaskCommandHandler was called
    connections,        \* this.connections: the registry, connection ids in insertion order
    ws,                 \* the socket of each connection: "none" | "OPEN" | "CLOSING" |
                        \* "PEER_CLOSING" | "CLOSED"  (readyState is CLOSING in both
                        \* closing states; after the peer's close frame or an error
                        \* no further frame is received)
    fault,              \* environment: ws.send on this socket throws
    cmds,               \* the taskCommand frames received: a sequence of command records
    lastOp,             \* what the handler that ran last did (observation)
    msgIn,              \* EventTransformer: the call's input, [taskId, message]
    evOut,              \* EventTransformer: the call's outcome,
                        \* [called, raised, threw, returned]
    emitted,            \* the events logged so far: the host events emitted
                        \* through API.emit, each with what the transformer
                        \* returned for it (and, where heartbeats are logged,
                        \* the firings of the heartbeat timer)
    delivered,          \* the frames of the logged events written to each
                        \* socket, in write order
    connIds,            \* the connectionId the handlers of each socket captured
                        \* ("none" where ids are not drawn: the sockets then
                        \* stand for connections with distinct ids)
    api                 \* the host API object: [ref, instances, calls], see
                        \* the API section

serverVars == <<config, portStatus, httpListening, boundPort, wssState, startPc,
                portToTry, probed, startError, stops, heartbeatTimer,
                taskCommandHandler, connections, ws, fault, cmds, lastOp>>
transformVars == <<msgIn, evOut>>
pipeVars == <<emitted, delivered>>
apiVars == <<connIds, api>>
vars == <<config, portStatus, httpListening, boundPort, wssState, startPc,
          portToTry, probed, startError, stops, heartbeatTimer,
          taskCommandHandler, connections, ws, fault, cmds, lastOp, msgIn, evOut,
          emitted, delivered, connIds, api>>

\* ----------------------------------------------------------------- helpers
Range(s) == {s[i] : i \in 1..Len(s)}

Remove(s, x) == SelectSeq(s, LAMBDA y : y # x)

Last(s) == s[Len(s)]

NoOp == [kind |-> "none"]

\* The sockets the WebSocketServer still counts as clients (ws removes a client
\* from wss.clients when its 'close' event fires).
Clients == {c \in Conns : ws[c] \in {"OPEN", "CLOSING", "PEER_CLOSING"}}

\* ------------------------------------------------- sendToWebSocketClient
\* if (ws.readyState === OPEN) ws.send(JSON.stringify(event)).
\* "skipped": the socket is not open, nothing is written and nothing thrown;
\* "threw":   JSON.stringify or ws.send threw;   "sent": the frame was written.
SendToWebSocketClient(c, serializable) ==
    IF ws[c] # "OPEN" THEN "skipped"
    ELSE IF ~serializable \/ fault[c] THEN "threw"
    ELSE "sent"

\* ---------------------------------------------------------- broadcastEvent
\* for (const [id, connection] of Array.from(this.connections.entries()))
\*     try { send } catch { this.connections.delete(id) }
\* The fold runs over the snapshot `snap` from index i; acc is
\* [conns: the registry, writes: frames written to each connection, threw:
\* the connections whose write threw, escaped: an exception left the call].
RECURSIVE BroadcastLoop(_, _, _, _)
BroadcastLoop(snap, i, serializable, acc) ==
    IF i > Len(snap) THEN acc
    ELSE LET c == snap[i]
             r == SendToWebSocketClient(c, serializable)
         IN BroadcastLoop(snap, i + 1, serializable,
                [conns  |-> IF r = "threw" THEN Remove(acc.conns, c) ELSE acc.conns,
                 writes |-> IF r = "sent"
                            THEN [acc.writes EXCEPT ![c] = @ + 1] ELSE acc.writes,
                 threw  |-> IF r = "threw" THEN acc.threw \cup {c} ELSE acc.threw,
                 escaped |-> acc.escaped])

\* A broadcast whose try/catch encloses the whole loop: the first failed write
\* ends the iteration.
RECURSIVE BroadcastLoopAbort(_, _, _, _)
BroadcastLoopAbort(snap, i, serializable, acc) ==
    IF i > Len(snap) THEN acc
    ELSE LET c == snap[i]
             r == SendToWebSocketClient(c, serializable)
         IN IF r = "threw"
            THEN [acc EXCEPT !.conns = Remove(@, c), !.threw = @ \cup {c}]
            ELSE BroadcastLoopAbort(snap, i + 1, serializable,
                    [acc EXCEPT !.writes[c] = IF r = "sent" THEN @ + 1 ELSE @])

BroadcastEventAbort(serializable) ==
    BroadcastLoopAbort(connections, 1, serializable,
        [conns |-> connections, writes |-> [c \in Conns |-> 0], threw |-> {},
         escaped |-> FALSE])

\* A broadcast that iterates the sockets of the WebSocketServer (wss.clients)
\* instead of the registry snapshot.
BroadcastEventAllClients(serializable) ==
    BroadcastLoop(SelectSeq([c \in Conns |-> c], LAMBDA c : c \in Clients), 1,
        serializable,
        [conns |-> connections, writes |-> [c \in Conns |-> 0], threw |-> {},
         escaped |-> FALSE])

\* A broadcast with no try/catch: the first failed write leaves the call as an
\* exception, the registry untouched.
RECURSIVE BroadcastLoopNoCatch(_, _, _, _)
BroadcastLoopNoCatch(snap, i, serializable, acc) ==
    IF i > Len(snap) THEN acc
    ELSE LET c == snap[i]
             r == SendToWebSocketClient(c, serializable)
         IN IF r = "threw"
            THEN [acc EXCEPT !.threw = @ \cup {c}, !.escaped = TRUE]
            ELSE BroadcastLoopNoCatch(snap, i + 1, serializable,
                    [acc EXCEPT !.writes[c] = IF r = "sent" THEN @ + 1 ELSE @])

BroadcastEventNoCatch(serializable) ==
    BroadcastLoopNoCatch(connections, 1, serializable,
        [conns |-> connections, writes |-> [c \in Conns |-> 0], threw |-> {},
         escaped |-> FALSE])

BroadcastEvent(serializable) ==
    BroadcastLoop(connections, 1, serializable,
        [conns |-> connections, writes |-> [c \in Conns |-> 0], threw |-> {},
         escaped |-> FALSE])

\* The effect of one broadcastEvent(event) call on the state.
DoBroadcast(type, serializable) ==
    LET b == BroadcastEvent(serializable)
    IN /\ connections' = b.conns
       /\ lastOp' = [kind |-> "broadcast", type |-> type, serializable |-> serializable,
                     before |-> connections, writes |-> b.writes, threw |-> b.threw,
                     escaped |-> b.escaped]

\* ------------------------------------------------------------ construction
\* DEFAULT_CONFIG, its fields that the model keeps.
DEFAULT_CONFIG ==
    [port |-> 3001, portRange |-> [min |-> 3001, max |-> 3100],
     heartbeatInterval |-> 30000]

\* { ...base, ...over }: a field of `over` replaces the field of `base`.
MergeConfig(base, over) ==
    LET Pick(f) == IF f \in DOMAIN over THEN over[f] ELSE base[f]
    IN [port |-> Pick("port"), portRange |-> Pick("portRange"),
        heartbeatInterval |-> Pick("heartbeatInterval")]

\* constructor: config = {...DEFAULT_CONFIG, ...config}; the http server and the
\* WebSocketServer are created (not listening); setupWebSocket(); setupHeartbeat()
\* starts the interval timer.  No command handler is set.
Constructed(cfg, status) ==
    /\ config = MergeConfig(DEFAULT_CONFIG, cfg)
    /\ portStatus = status
    /\ httpListening = FALSE
    /\ boundPort = 0
    /\ wssState = "running"
    /\ startPc = "idle"
    /\ portToTry = 0
    /\ probed = <<>>
    /\ startError = "none"
    /\ stops = <<>>
    /\ heartbeatTimer = MergeConfig(DEFAULT_CONFIG, cfg).heartbeatInterval
    /\ taskCommandHandler = FALSE
    /\ connections = <<>>
    /\ ws = [c \in Conns |-> "none"]
    /\ fault = [c \in Conns |-> FALSE]
    /\ cmds = <<>>
    /\ lastOp = NoOp
    /\ emitted = <<>>
    /\ delivered = [c \in Conns |-> <<>>]
    /\ connIds = [c \in Conns |-> "none"]
    /\ api = [ref |-> 0, instances |-> <<>>, calls |-> <<>>]

TransformerIdle ==
    /\ msgIn = [taskId |-> "none", message |-> <<>>]
    /\ evOut = [called |-> "none", raised |-> FALSE, threw |-> FALSE,
                returned |-> <<>>]

\* setTaskCommandHandler(handler)
SetTaskCommandHandler ==
    /\ ~taskCommandHandler
    /\ taskCommandHandler' = TRUE
    /\ lastOp' = NoOp
    /\ UNCHANGED <<config, portStatus, apiVars, httpListening, boundPort, wssState, startPc,
                   portToTry, probed, startError, stops, heartbeatTimer,
                   connections, ws, fault, cmds, msgIn, evOut, emitted, delivered>>

\* ------------------------------------------------------------ updateConfig
\* The intervals a configuration may name: the default and a shorter one.
HeartbeatIntervals == {DEFAULT_CONFIG.heartbeatInterval, 5000}

\* The partial configurations handed to updateConfig: a port, a heartbeat
\* interval, or both.  (start() reads portRange once, when it is called; the
\* overrides leave it alone.)
ConfigOverrides ==
    {[port |-> p] : p \in Ports}
        \cup {[heartbeatInterval |-> h] : h \in HeartbeatIntervals}
        \cup {[port |-> p, heartbeatInterval |-> h] :
                 p \in Ports, h \in HeartbeatIntervals}

\* An updateConfig that restarts the heartbeat timer with the new interval.
UpdateConfigRearmsTimer(newConfig) ==
    /\ config' = MergeConfig(config, newConfig)
    /\ heartbeatTimer' = config'.heartbeatInterval
    /\ lastOp' = [kind |-> "updateConfig", newConfig |-> newConfig]
    /\ UNCHANGED <<portStatus, apiVars, httpListening, boundPort, wssState, startPc,
                   portToTry, probed, startError, stops,
                   taskCommandHandler, connections, ws, fault, cmds, msgIn, evOut,
                   emitted, delivered>>

\* updateConfig(newConfig): this.config = { ...this.config, ...newConfig }
UpdateConfig(newConfig) ==
    /\ config' = MergeConfig(config, newConfig)
    /\ lastOp' = [kind |-> "updateConfig", newConfig |-> newConfig]
    /\ UNCHANGED <<portStatus, apiVars, httpListening, boundPort, wssState, startPc,
                   portToTry, probed, startError, stops, heartbeatTimer,
                   taskCommandHandler, connections, ws, fault, cmds, msgIn, evOut,
                   emitted, delivered>>

\* ------------------------------------------------------------------ start()
\* start(): tryPort(config.port) registers the once-listeners and calls
\* server.listen(portToTry); the bind's outcome arrives as 'listening' or 'error'.
\* The host starts an instance once, and not after it has called stop() on it
\* (API.stopStreamingServer drops the instance).
Start ==
    /\ startPc = "idle"
    /\ stops = <<>>
    /\ startPc' = "probing"
    /\ portToTry' = config.port
    /\ probed' = <<config.port>>
    /\ lastOp' = NoOp
    /\ UNCHANGED <<config, portStatus, apiVars, httpListening, boundPort, wssState, startError,
                   stops, heartbeatTimer, taskCommandHandler, connections, ws, fault,
                   cmds, msgIn, evOut, emitted, delivered>>

\* An onListening that leaves the configured port as it was.
OnListeningKeepsConfig ==
    /\ startPc = "probing"
    /\ portStatus[portToTry] = "free"
    /\ httpListening' = TRUE
    /\ boundPort' = portToTry
    /\ startPc' = "resolved"
    /\ lastOp' = NoOp
    /\ UNCHANGED <<config, portStatus, apiVars, wssState, portToTry, probed, startError, stops,
                   heartbeatTimer, taskCommandHandler, connections, ws, fault, cmds,
                   msgIn, evOut, emitted, delivered>>

\* onListening: config.port = portToTry; emit "started"; resolve().
OnListening ==
    /\ startPc = "probing"
    /\ portStatus[portToTry] = "free"
    /\ config' = [config EXCEPT !.port = portToTry]
    /\ httpListening' = TRUE
    /\ boundPort' = portToTry
    /\ startPc' = "resolved"
    /\ lastOp' = NoOp
    /\ UNCHANGED <<portStatus, apiVars, wssState, portToTry, probed, startError, stops,
                   heartbeatTimer, taskCommandHandler, connections, ws, fault, cmds,
                   msgIn, evOut, emitted, delivered>>

\* onError's decision: the next port to try, or 0 to reject.
\* if (error.code === "EADDRINUSE") { if (portRange && portToTry < portRange.max)
\*     tryPort(portToTry + 1) else reject(No available ports) } else reject(error)
\* An off-by-one in the range test: the range's last port is never tried.
NextPortStopsShort(code, range, port) ==
    IF code = "inuse" /\ range # NoRange /\ port + 1 < range.max THEN port + 1 ELSE 0

\* No range test: probing goes on past the range's maximum.
NextPortUnbounded(code, range, port) ==
    IF code = "inuse" /\ range # NoRange /\ port < MaxPort THEN port + 1 ELSE 0

\* No test of the error code: every bind error moves on to the next port.
NextPortAnyError(code, range, port) ==
    IF range # NoRange /\ port < range.max THEN port + 1 ELSE 0

\* No test that a range is configured: a port in use is always followed by
\* the next one.
NextPortWithoutRange(code, range, port) ==
    IF code = "inuse" /\ port < MaxPort THEN port + 1 ELSE 0

NextPortOnError(code, range, port) ==
    IF code = "inuse" /\ range # NoRange /\ port < range.max THEN port + 1 ELSE 0

OnError ==
    /\ startPc = "probing"
    /\ portStatus[portToTry] # "free"
    /\ LET next == NextPortOnError(portStatus[portToTry], config.portRange, portToTry)
       IN IF next # 0
          THEN /\ portToTry' = next
               /\ probed' = Append(probed, next)
               /\ UNCHANGED <<startPc, startError>>
          ELSE /\ startPc' = "rejected"
               /\ startError' = IF portStatus[portToTry] = "inuse"
                                THEN "exhausted" ELSE "bind"
               /\ UNCHANGED <<portToTry, probed>>
    /\ lastOp' = NoOp
    /\ UNCHANGED <<config, portStatus, apiVars, httpListening, boundPort, wssState, stops,
                   heartbeatTimer, taskCommandHandler, connections, ws, fault, cmds,
                   msgIn, evOut, emitted, delivered>>

\* ------------------------------------------------------------- connections
\* A connection handler that still registers upgrades after wss.close() was
\* called.
ConnectWhileClosing(c) ==
    /\ httpListening
    /\ ws[c] = "none"
    /\ \A d \in Conns : d < c => ws[d] # "none"
    /\ ws' = [ws EXCEPT ![c] = "OPEN"]
    /\ connections' = Append(connections, c)
    /\ lastOp' = NoOp
    /\ UNCHANGED <<config, portStatus, apiVars, httpListening, boundPort, wssState, startPc,
                   portToTry, probed, startError, stops, heartbeatTimer,
                   taskCommandHandler, fault, cmds, msgIn, evOut, emitted, delivered>>

\* wss.on("connection"): a fresh id (generateConnectionId: time and a random
\* suffix; here the connection's own index, so the ids issued are distinct),
\* the connection is registered, and the message/close/error handlers are set.
\* The WebSocketServer accepts upgrades only while the http server listens and
\* wss.close() has not been called.
Connect(c) ==
    /\ httpListening
    /\ wssState = "running"
    /\ ws[c] = "none"
    /\ \A d \in Conns : d < c => ws[d] # "none"
    /\ ws' = [ws EXCEPT ![c] = "OPEN"]
    /\ connections' = Append(connections, c)
    /\ lastOp' = NoOp
    /\ UNCHANGED <<config, portStatus, apiVars, httpListening, boundPort, wssState, startPc,
                   portToTry, probed, startError, stops, heartbeatTimer,
                   taskCommandHandler, fault, cmds, msgIn, evOut, emitted, delivered>>

\* The peer's close frame arrives: readyState becomes CLOSING; the 'close'
\* event has not fired yet.
PeerClosing(c) ==
    /\ ws[c] \in {"OPEN", "CLOSING"}
    /\ ws' = [ws EXCEPT ![c] = "PEER_CLOSING"]
    /\ lastOp' = NoOp
    /\ UNCHANGED <<config, portStatus, apiVars, httpListening, boundPort, wssState, startPc,
                   portToTry, probed, startError, stops, heartbeatTimer,
                   taskCommandHandler, connections, fault, cmds, msgIn, evOut, emitted, delivered>>

\* A close handler that leaves the connection in the registry.
OnCloseKeepsRegistered(c) ==
    /\ ws[c] \in {"OPEN", "CLOSING", "PEER_CLOSING"}
    /\ ws' = [ws EXCEPT ![c] = "CLOSED"]
    /\ lastOp' = NoOp
    /\ UNCHANGED <<config, portStatus, apiVars, httpListening, boundPort, wssState, startPc,
                   portToTry, probed, startError, stops, heartbeatTimer,
                   taskCommandHandler, connections, fault, cmds, msgIn, evOut,
                   emitted, delivered>>

\* ws.on("close"): this.connections.delete(connectionId)
OnClose(c) ==
    /\ ws[c] \in {"OPEN", "CLOSING", "PEER_CLOSING"}
    /\ ws' = [ws EXCEPT ![c] = "CLOSED"]
    /\ connections' = Remove(connections, c)
    /\ lastOp' = NoOp
    /\ UNCHANGED <<config, portStatus, apiVars, httpListening, boundPort, wssState, startPc,
                   portToTry, probed, startError, stops, heartbeatTimer,
                   taskCommandHandler, fault, cmds, msgIn, evOut, emitted, delivered>>

\* ws.on("error"): this.connections.delete(connectionId).  The socket is then
\* being torn down by ws (its 'close' event follows).
OnWsError(c) ==
    /\ ws[c] \in {"OPEN", "CLOSING", "PEER_CLOSING"}
    /\ ws' = [ws EXCEPT ![c] = "PEER_CLOSING"]
    /\ connections' = Remove(connections, c)
    /\ lastOp' = NoOp
    /\ UNCHANGED <<config, portStatus, apiVars, httpListening, boundPort, wssState, startPc,
                   portToTry, probed, startError, stops, heartbeatTimer,
                   taskCommandHandler, fault, cmds, msgIn, evOut, emitted, delivered>>

\* Environment: from now on a write to this socket throws although its
\* readyState is still OPEN.
TransportFault(c) ==
    /\ ws[c] = "OPEN"
    /\ ~fault[c]
    /\ fault' = [fault EXCEPT ![c] = TRUE]
    /\ lastOp' = NoOp
    /\ UNCHANGED <<config, portStatus, apiVars, httpListening, boundPort, wssState, startPc,
                   portToTry, probed, startError, stops, heartbeatTimer,
                   taskCommandHandler, connections, ws, cmds, msgIn, evOut, emitted, delivered>>

\* ------------------------------------------------- broadcast and heartbeat
\* The host calls broadcastEvent(event); an event may fail to serialize.
HostBroadcast(serializable) ==
    /\ DoBroadcast("message", serializable)
    /\ UNCHANGED <<config, portStatus, apiVars, httpListening, boundPort, wssState, startPc,
                   portToTry, probed, startError, stops, heartbeatTimer,
                   taskCommandHandler, ws, fault, cmds, msgIn, evOut, emitted, delivered>>

\* The interval of setupHeartbeat fires: broadcastEvent({type: "heartbeat", ...}).
Heartbeat ==
    /\ heartbeatTimer # 0
    /\ DoBroadcast("heartbeat", TRUE)
    /\ UNCHANGED <<config, portStatus, apiVars, httpListening, boundPort, wssState, startPc,
                   portToTry, probed, startError, stops, heartbeatTimer,
                   taskCommandHandler, ws, fault, cmds, msgIn, evOut, emitted, delivered>>

\* ------------------------------------------------------------ task commands
KnownCommands == {"StartNewTask", "CancelTask", "CloseTask"}

\* API.handleWebSocketTaskCommand: an unknown command name throws; a known one
\* awaits host work, which completes or throws.  TRUE = resolved, FALSE = threw.
HandlerOutcomes(commandName) ==
    IF commandName \in KnownCommands THEN {TRUE, FALSE} ELSE {FALSE}

\* A frame written to one client in answer to a command.
Reply(c, type, detail) == [to |-> c, type |-> type, detail |-> detail]

\* An acknowledgement written to the socket captured when the frame arrived,
\* without looking the connection up in the registry.
SendAckToClientNoLookup(connectionId, commandName) ==
    LET r == SendToWebSocketClient(connectionId, TRUE)
    IN [threw  |-> r = "threw",
        writes |-> IF r = "sent"
                   THEN <<Reply(connectionId, "taskCommandAck", commandName)>>
                   ELSE <<>>]

\* sendAckToClient(connectionId, commandName): looks the connection up in the
\* registry; writes {type: "taskCommandAck", commandName} to its socket.
\* Returns [threw, writes].
SendAckToClient(connectionId, commandName) ==
    IF connectionId \notin Range(connections) THEN [threw |-> FALSE, writes |-> <<>>]
    ELSE LET r == SendToWebSocketClient(connectionId, TRUE)
         IN [threw  |-> r = "threw",
             writes |-> IF r = "sent"
                        THEN <<Reply(connectionId, "taskCommandAck", commandName)>>
                        ELSE <<>>]

\* The frames one write of `type` to every registered open connection yields.
RECURSIVE ReplyToAll(_, _, _, _)
ReplyToAll(snap, i, type, detail) ==
    IF i > Len(snap) THEN <<>>
    ELSE (IF SendToWebSocketClient(snap[i], TRUE) = "sent"
          THEN <<Reply(snap[i], type, detail)>> ELSE <<>>)
         \o ReplyToAll(snap, i + 1, type, detail)

\* An error reply sent through the broadcast path instead of to one client.
SendErrorToClientBroadcast(connectionId, error) ==
    [threw |-> FALSE, writes |-> ReplyToAll(connections, 1, "error", error)]

\* sendErrorToClient(connectionId, error): same lookup; writes {type: "error", message}.
SendErrorToClient(connectionId, error) ==
    IF connectionId \notin Range(connections) THEN [threw |-> FALSE, writes |-> <<>>]
    ELSE LET r == SendToWebSocketClient(connectionId, TRUE)
         IN [threw  |-> r = "threw",
             writes |-> IF r = "sent"
                        THEN <<Reply(connectionId, "error", error)>>
                        ELSE <<>>]

\* Whether a frame written to c right now would arrive: c is registered, its
\* socket is open and its transport accepts the write.
Reachable(c) == c \in Range(connections) /\ ws[c] = "OPEN" /\ ~fault[c]

\* handleTaskCommand with no handler set: sendErrorToClient is called outside
\* any try block, so what it throws rejects the promise handleTaskCommand
\* returns; handleClientMessage does not await that promise.
NoHandlerReply(c, commandName) ==
    LET e == SendErrorToClient(c, "Task command handler not available")
    IN [conn |-> c, name |-> commandName, state |-> "done", outcome |-> "nohandler",
        writes |-> e.writes, escaped |-> e.threw, reachable |-> Reachable(c)]

\* A handleTaskCommand that reports a handler failure to the client in the
\* catch block and answers every command with the acknowledgement after it.
HandlerReplyAckAfterCatch(cmd, ok) ==
    LET e == IF ok THEN [threw |-> FALSE, writes |-> <<>>]
                   ELSE SendErrorToClient(cmd.conn, "Failed to process command")
        a == SendAckToClient(cmd.conn, cmd.name)
    IN [cmd EXCEPT !.state = "done",
                   !.outcome = IF ok THEN "ok" ELSE "raised",
                   !.writes = e.writes \o a.writes,
                   !.escaped = e.threw \/ a.threw,
                   !.reachable = Reachable(cmd.conn)]

\* handleTaskCommand after `await this.taskCommandHandler(...)`:
\*   try { await handler; sendAckToClient } catch { sendErrorToClient }
\* A throw of sendAckToClient lands in the same catch; a throw of
\* sendErrorToClient inside the catch rejects the promise.
HandlerReply(cmd, ok) ==
    LET a == IF ok THEN SendAckToClient(cmd.conn, cmd.name)
                   ELSE [threw |-> TRUE, writes |-> <<>>]
        e == IF a.threw THEN SendErrorToClient(cmd.conn, "Failed to process command")
                        ELSE [threw |-> FALSE, writes |-> <<>>]
    IN [cmd EXCEPT !.state = "done",
                   !.outcome = IF ok THEN "ok" ELSE "raised",
                   !.writes = a.writes \o e.writes,
                   !.escaped = e.threw,
                   !.reachable = Reachable(cmd.conn)]

\* A message handler that drops the connection on a frame it cannot use.
ProtocolErrorFrameDisconnects(c, kind) ==
    /\ ws[c] \in {"OPEN", "CLOSING"}
    /\ ws' = [ws EXCEPT ![c] = "CLOSING"]
    /\ connections' = Remove(connections, c)
    /\ lastOp' = [kind |-> "frame", conn |-> c, frame |-> kind]
    /\ UNCHANGED <<config, portStatus, apiVars, httpListening, boundPort, wssState, startPc,
                   portToTry, probed, startError, stops, heartbeatTimer,
                   taskCommandHandler, fault, cmds, msgIn, evOut, emitted, delivered>>

\* ws.on("message") with a payload JSON.parse rejects ("malformed": the catch
\* logs it) or whose type is not "taskCommand" ("unknown": logged).
ProtocolErrorFrame(c, kind) ==
    /\ ws[c] \in {"OPEN", "CLOSING"}
    /\ lastOp' = [kind |-> "frame", conn |-> c, frame |-> kind]
    /\ UNCHANGED <<config, portStatus, apiVars, httpListening, boundPort, wssState, startPc,
                   portToTry, probed, startError, stops, heartbeatTimer,
                   taskCommandHandler, connections, ws, fault, cmds, msgIn, evOut,
                   emitted, delivered>>

\* ws.on("message") with {type: "taskCommand", commandName}: handleClientMessage
\* -> handleTaskCommand, up to its first await.
TaskCommandFrame(c, commandName) ==
    /\ ws[c] \in {"OPEN", "CLOSING"}
    /\ Len(cmds) < MaxCmd
    /\ cmds' = Append(cmds,
          IF ~taskCommandHandler
          THEN NoHandlerReply(c, commandName)
          ELSE [conn |-> c, name |-> commandName, state |-> "pending",
                outcome |-> "none", writes |-> <<>>, escaped |-> FALSE,
                reachable |-> FALSE])
    /\ lastOp' = NoOp
    /\ UNCHANGED <<config, portStatus, apiVars, httpListening, boundPort, wssState, startPc,
                   portToTry, probed, startError, stops, heartbeatTimer,
                   taskCommandHandler, connections, ws, fault, msgIn, evOut, emitted, delivered>>

\* The handler's promise settles and handleTaskCommand resumes.
HandlerDone(k, ok) ==
    /\ k \in 1..Len(cmds)
    /\ cmds[k].state = "pending"
    /\ ok \in HandlerOutcomes(cmds[k].name)
    /\ cmds' = [cmds EXCEPT ![k] = HandlerReply(cmds[k], ok)]
    /\ lastOp' = NoOp
    /\ UNCHANGED <<config, portStatus, apiVars, httpListening, boundPort, wssState, startPc,
                   portToTry, probed, startError, stops, heartbeatTimer,
                   taskCommandHandler, connections, ws, fault, msgIn, evOut, emitted, delivered>>

\* ------------------------------------------------------------------- stop()
\* stop(), its synchronous part, in statement order:
\*   clearInterval(heartbeatInterval); websocket.close() on every registered
\*   connection; connections.clear(); wss.close(cb).
\* A stop() that resolves at once instead of inside the close callbacks.
StopSyncResolvesEarly ==
    [timer |-> 0,
     ws    |-> [c \in Conns |->
                  IF c \in Range(connections) /\ ws[c] = "OPEN" THEN "CLOSING" ELSE ws[c]],
     conns |-> <<>>,
     wss   |-> IF wssState = "running" THEN "closing" ELSE wssState,
     pc    |-> "resolved",
     log   |-> <<"clearInterval", "closeConnections", "clearRegistry", "wssClose",
                "resolve">>]

\* A stop() that neither closes the registered websockets nor clears the
\* registry.
StopSyncKeepsConnections ==
    [timer |-> 0,
     ws    |-> ws,
     conns |-> connections,
     wss   |-> IF wssState = "running" THEN "closing" ELSE wssState,
     pc    |-> "wssClosing",
     log   |-> <<"clearInterval", "wssClose">>]

StopSync ==
    [timer |-> 0,
     ws    |-> [c \in Conns |->
                  IF c \in Range(connections) /\ ws[c] = "OPEN" THEN "CLOSING" ELSE ws[c]],
     conns |-> <<>>,
     wss   |-> IF wssState = "running" THEN "closing" ELSE wssState,
     pc    |-> "wssClosing",
     log   |-> <<"clearInterval", "closeConnections", "clearRegistry", "wssClose">>]

Stop ==
    /\ Len(stops) < MaxStop
    /\ LET s == StopSync
       IN /\ heartbeatTimer' = s.timer
          /\ ws' = s.ws
          /\ connections' = s.conns
          /\ wssState' = s.wss
          /\ stops' = Append(stops,
                [pc |-> s.pc, log |-> s.log,
                 onStopped |-> ~httpListening /\ startPc # "probing" /\ Clients = {}])
    /\ lastOp' = NoOp
    /\ UNCHANGED <<config, portStatus, apiVars, httpListening, boundPort, startPc, portToTry,
                   probed, startError, taskCommandHandler, fault, cmds, msgIn, evOut,
                   emitted, delivered>>

\* The callback of wss.close(cb): the WebSocketServer emits 'close' once it is
\* closing and its last client is gone.  The callback calls server.close(cb2),
\* which stops the listener.  (A bind started by listen() reports on the next
\* tick, before any callback queued later: no callback runs while probing.)
\* A stop() that waits for the 'close' event of the WebSocketServer instead of
\* passing a callback: nothing fires when the server is closed already.
OnWssClosedEventOnly(k) ==
    /\ k \in 1..Len(stops)
    /\ stops[k].pc = "wssClosing"
    /\ startPc # "probing"
    /\ wssState = "closing"
    /\ Clients = {}
    /\ wssState' = "closed"
    /\ httpListening' = FALSE
    /\ boundPort' = 0
    /\ stops' = [stops EXCEPT ![k] = [@ EXCEPT !.pc = "httpClosing",
                                               !.log = Append(@, "serverClose")]]
    /\ lastOp' = NoOp
    /\ UNCHANGED <<config, portStatus, apiVars, startPc, portToTry, probed, startError,
                   heartbeatTimer, taskCommandHandler, connections, ws, fault, cmds,
                   msgIn, evOut, emitted, delivered>>

OnWssClosed(k) ==
    /\ k \in 1..Len(stops)
    /\ stops[k].pc = "wssClosing"
    /\ startPc # "probing"
    /\ wssState \in {"closing", "closed"}
    /\ Clients = {}
    /\ wssState' = "closed"
    /\ httpListening' = FALSE
    /\ boundPort' = 0
    /\ stops' = [stops EXCEPT ![k] = [@ EXCEPT !.pc = "httpClosing",
                                               !.log = Append(@, "serverClose")]]
    /\ lastOp' = NoOp
    /\ UNCHANGED <<config, portStatus, apiVars, startPc, portToTry, probed, startError,
                   heartbeatTimer, taskCommandHandler, connections, ws, fault, cmds,
                   msgIn, evOut, emitted, delivered>>

\* The callback of server.close(cb2): emit "stopped"; resolve().
OnHttpClosed(k) ==
    /\ k \in 1..Len(stops)
    /\ stops[k].pc = "httpClosing"
    /\ startPc # "probing"
    /\ stops' = [stops EXCEPT ![k] = [@ EXCEPT !.pc = "resolved",
                                               !.log = Append(@, "resolve")]]
    /\ lastOp' = NoOp
    /\ UNCHANGED <<config, portStatus, apiVars, httpListening, boundPort, wssState, startPc,
                   portToTry, probed, startError, heartbeatTimer, taskCommandHandler,
                   connections, ws, fault, cmds, msgIn, evOut, emitted, delivered>>

\* --------------------------------------------- EventTransformer: values
\* A JavaScript value that may be undefined is a sequence of length at most
\* one: None is undefined (or null), Some(v) is the value v.
None == <<>>

Some(v) == <<v>>

\* A call either returns a value or throws an Error with a message.
Return(v) == [threw |-> FALSE, value |-> v]

Throw(msg) == [threw |-> TRUE, error |-> msg]

\* JavaScript truthiness of an optional string.
Truthy(text) == text # None /\ text[1] # ""

\* text || dflt
OrElse(text, dflt) == IF Truthy(text) THEN text[1] ELSE dflt

\* A default case that renders only the bracketed tag, ignoring the text.
PlaceholderTagOnly(text, category) == "[" \o category \o "]"

\* message.text || `[${category}]`: the text of a default case
Placeholder(text, category) == OrElse(text, "[" \o category \o "]")

\* message.images && message.images.length > 0
HasImages(message) == message.images # None /\ Len(message.images[1]) > 0

\* A correlation id taken from the message text instead of its timestamp.
TsToStringFromText(message) == Return(OrElse(message.text, "0"))

\* message.ts.toString(): a TypeError when the message carries no ts.
TsToString(message) ==
    IF message.ts = None
    THEN Throw("Cannot read properties of undefined (reading 'toString')")
    ELSE Return(ToString(message.ts[1]))

\* What messageToGenAIContent returns: { content?, data? }.
Mapped(content, data) == Return([content |-> Some(content), data |-> Some(data)])

Nothing == Return([content |-> None, data |-> None])

\* One Content with one part.
OnePart(role, part) == <<[role |-> role, parts |-> <<part>>]>>

\* ------------------------------------ EventTransformer: say (part_002)
IgnoredSays ==
    {"api_req_started", "api_req_finished", "api_req_retried",
     "api_req_retry_delayed", "api_req_deleted", "shell_integration_warning",
     "checkpoint_saved", "rooignore_error", "diff_error"}

\* The cases of transformSayMessage that read message.ts, given its string.
SayWithId(message, id) ==
    LET say == message.say IN
    CASE say = "command_output" ->
           Mapped(OnePart("user",
                    [functionResponse |->
                       [name |-> "execute_command",
                        response |-> [output |-> message.text],
                        id |-> id]]),
                  [say |-> say])
      [] say = "mcp_server_request_started" ->
           Mapped(OnePart("model",
                    [functionCall |->
                       [name |-> "mcp_tool",
                        args |-> [status |-> "started",
                                  details |-> OrElse(message.text,
                                                     "MCP server request initiated")],
                        id |-> id]]),
                  [say |-> say])
      [] say = "mcp_server_response" ->
           Mapped(OnePart("user",
                    [functionResponse |->
                       [name |-> "mcp_tool",
                        response |-> [result |-> OrElse(message.text, "")],
                        id |-> id]]),
                  [say |-> say])
      [] say = "codebase_search_result" ->
           Mapped(OnePart("user",
                    [functionResponse |->
                       [name |-> "search_codebase",
                        response |->
                           [result |-> OrElse(message.text, ""),
                            reasoning |-> IF Truthy(message.reasoning)
                                          THEN message.reasoning ELSE None],
                        id |-> id]]),
                  [say |-> say])

SaysWithId ==
    {"command_output", "mcp_server_request_started", "mcp_server_response",
     "codebase_search_result"}

\* transformSayMessage(message)
TransformSayMessage(message) ==
    LET say == message.say
        text == message.text
    IN
    CASE say \in IgnoredSays -> Nothing
      [] say = "reasoning" ->
           IF Truthy(text)
           THEN Mapped(OnePart("model", [text |-> text[1], thought |-> TRUE]),
                       [say |-> say])
           ELSE Nothing
      [] say = "text" ->
           IF Truthy(text)
           THEN Mapped(OnePart("model", [text |-> text[1]]), [say |-> say])
           ELSE Nothing
      [] say \in SaysWithId ->
           LET id == TsToString(message) IN
           IF id.threw THEN id ELSE SayWithId(message, id.value)
      [] say = "browser_action" ->
           LET action == OrElse(text, "Browser action initiated") IN
           Mapped(OnePart("model",
                    [functionCall |->
                       [name |-> "browser_action",
                        args |-> IF HasImages(message)
                                 THEN [action |-> action, images |-> message.images[1]]
                                 ELSE [action |-> action]]]),
                  [say |-> say])
      [] say = "browser_action_result" ->
           LET result == OrElse(text, "") IN
           Mapped(OnePart("user",
                    [functionResponse |->
                       [name |-> "browser_action",
                        response |-> IF HasImages(message)
                                     THEN [result |-> result,
                                           screenshots |-> message.images[1]]
                                     ELSE [result |-> result]]]),
                  [say |-> say])
      [] say = "error" ->
           Mapped(OnePart("user",
                    [text |-> "Error: " \o OrElse(text, "Unknown error")]),
                  [say |-> say])
      [] say = "completion_result" ->
           Mapped(OnePart("model", [text |-> Placeholder(text, say)]),
                  [say |-> say])
      [] say \in {"user_feedback", "user_feedback_diff"} ->
           IF Truthy(text)
           THEN Mapped(OnePart("user", [text |-> text[1]]), [say |-> say])
           ELSE Nothing
      [] say = "subtask_result" ->
           Mapped(OnePart("user",
                    [functionResponse |->
                       [name |-> "complete_subtask",
                        response |-> [result |-> OrElse(text, "")]]]),
                  [say |-> say])
      [] OTHER ->
           Mapped(OnePart("model", [text |-> Placeholder(text, say)]),
                  [say |-> say])

\* ------------------------------------ EventTransformer: ask (part_002)
\* The texts of tool requests the model feeds in: a tool call without a
\* result, and one that carries its result in "content".
ToolCallText == "{\"tool\":\"readFile\",\"path\":\"a.ts\"}"

ToolResultText == "{\"tool\":\"readFile\",\"path\":\"a.ts\",\"content\":\"body\"}"

\* JSON.parse(text) on the texts the model feeds in: an object becomes the
\* record of its members, null is null, anything else is a SyntaxError.
JsonParse(text) ==
    CASE text = ToolCallText ->
           Return([kind |-> "object",
                   members |-> [tool |-> "readFile", path |-> "a.ts"]])
      [] text = ToolResultText ->
           Return([kind |-> "object",
                   members |-> [tool |-> "readFile", path |-> "a.ts",
                                content |-> "body"]])
      [] text = "null" -> Return([kind |-> "null"])
      [] text = "" -> Throw("Unexpected end of JSON input")
      [] OTHER -> Throw("Unexpected token in JSON")

\* const { <dropped>, ...rest } = toolData
Rest(toolData, dropped) == [f \in DOMAIN toolData \ dropped |-> toolData[f]]

\* A "tool" case that maps the call and leaves the inline result out.
AskToolTryUnpaired(message) ==
    LET parsed == JsonParse(message.text[1])
        id == TsToString(message)
    IN
    IF parsed.threw THEN parsed
    ELSE IF parsed.value.kind = "null"
    THEN Throw("Cannot read properties of null (reading 'tool')")
    ELSE IF id.threw THEN id
    ELSE Mapped(OnePart("model",
                  [functionCall |->
                     [name |-> parsed.value.members.tool,
                      args |-> Rest(parsed.value.members, {"tool"}),
                      id |-> id.value]]),
                [ask |-> "tool"])

\* The try block of the "tool" case, entered with a truthy message.text.
AskToolTry(message) ==
    LET parsed == JsonParse(message.text[1]) IN
    IF parsed.threw THEN parsed
    ELSE IF parsed.value.kind = "null"
    THEN Throw("Cannot read properties of null (reading 'tool')")
    ELSE
    LET toolData == parsed.value.members
        toolName == toolData.tool
        id == TsToString(message)
    IN
    IF id.threw THEN id
    ELSE IF "content" \in DOMAIN toolData
    THEN Mapped(<<[role |-> "model",
                   parts |-> <<[functionCall |->
                                  [name |-> toolName,
                                   args |-> Rest(toolData, {"tool", "content"}),
                                   id |-> id.value]]>>],
                  [role |-> "user",
                   parts |-> <<[functionResponse |->
                                  [name |-> toolName,
                                   response |-> [content |-> toolData.content],
                                   id |-> id.value]]>>]>>,
                [ask |-> "tool"])
    ELSE Mapped(OnePart("model",
                  [functionCall |->
                     [name |-> toolName,
                      args |-> Rest(toolData, {"tool"}),
                      id |-> id.value]]),
                [ask |-> "tool"])

\* A "tool" case without its own try/catch: a failure reaches the caller.
AskToolNoCatch(message) ==
    IF Truthy(message.text)
    THEN AskToolTry(message)
    ELSE Mapped(OnePart("model", [text |-> "[tool]"]), [ask |-> "tool"])

\* The "tool" case of transformAskMessage: its own try/catch turns a failure
\* into the raw text, without data.
AskTool(message) ==
    IF Truthy(message.text)
    THEN LET tried == AskToolTry(message) IN
         IF tried.threw
         THEN Return([content |-> Some(OnePart("model",
                                    [text |-> OrElse(message.text, "[tool]")])),
                      data |-> None])
         ELSE tried
    ELSE Mapped(OnePart("model", [text |-> "[tool]"]), [ask |-> "tool"])

\* The placeholder of each ask category that maps to plain text.
AskPlaceholder ==
    [followup |-> "Follow-up question from agent",
     command |-> "Permission request to execute command",
     resume_task |-> "Resume task request",
     resume_completed_task |-> "Resume completed task request",
     browser_action_launch |-> "Browser action launch request",
     use_mcp_server |-> "MCP server usage request",
     completion_result |-> "Task completion result",
     command_output |-> "Command execution output",
     api_req_failed |-> "API request failed - user intervention needed",
     mistake_limit_reached |-> "Mistake limit reached - user guidance needed",
     auto_approval_max_req_reached |->
         "Auto-approval limit reached - manual approval required"]

\* A transformAskMessage whose table categories fall back to the bracketed
\* tag instead of their own placeholder.
TransformAskMessageBracketed(message) ==
    IF message.ask = "tool" THEN AskTool(message)
    ELSE Mapped(OnePart("model", [text |-> Placeholder(message.text, message.ask)]),
                [ask |-> message.ask])

\* transformAskMessage(message)
TransformAskMessage(message) ==
    LET ask == message.ask
        text == message.text
    IN
    CASE ask = "tool" -> AskTool(message)
      [] ask \in DOMAIN AskPlaceholder ->
           Mapped(OnePart("model", [text |-> OrElse(text, AskPlaceholder[ask])]),
                  [ask |-> ask])
      [] OTHER ->
           Mapped(OnePart("model", [text |-> Placeholder(text, ask)]),
                  [ask |-> ask, message |-> text])

\* ------------------------- EventTransformer: transformMessageEvent (part_002)
\* messageToGenAIContent(message)
MessageToGenAIContent(message) ==
    CASE message.type = "say" -> TransformSayMessage(message)
      [] message.type = "ask" -> TransformAskMessage(message)
      [] OTHER -> Nothing

\* generateEventId(): event_<Date.now()>_<nine base-36 digits of Math.random()>
GenerateEventId(now, suffix) == "event_" \o ToString(now) \o "_" \o suffix

\* The catch block of transformMessageEvent (both variants build this event).
ErrorEvent(taskId, error, now, suffix) ==
    [type |-> "error",
     task_id |-> taskId,
     event_id |-> GenerateEventId(now, suffix),
     timestamp |-> now,
     data |-> [error |-> "Error transforming message: " \o error]]

\* The try block of transformMessageEvent.  message is None when the caller
\* passes undefined; suffixes are the draws of Math.random(), one per event.
TransformMessageEventTry(taskId, message, now, suffixes) ==
    IF message = None
    THEN Throw("Cannot read properties of undefined (reading 'partial')")
    ELSE IF message[1].partial THEN Return(None)
    ELSE
    LET mapped == MessageToGenAIContent(message[1]) IN
    IF mapped.threw THEN mapped
    ELSE
    LET content == mapped.value.content
        data == mapped.value.data
    IN
    IF (content = None \/ Len(content[1]) = 0) /\ data = None THEN Return(None)
    ELSE IF content = None THEN Return(None)
    ELSE Return(Some([i \in 1..Len(content[1]) |->
                        [type |-> "message",
                         content |-> content[1][i],
                         data |-> data,
                         task_id |-> taskId,
                         event_id |-> GenerateEventId(now, suffixes[i]),
                         timestamp |-> now]]))

\* A transformMessageEvent whose try block has no catch.
TransformMessageEventNoCatch(taskId, message, now, suffixes) ==
    TransformMessageEventTry(taskId, message, now, suffixes)

\* transformMessageEvent(taskId, message): StreamEvent[] | null
TransformMessageEvent(taskId, message, now, suffixes) ==
    LET tried == TransformMessageEventTry(taskId, message, now, suffixes) IN
    IF tried.threw
    THEN Return(Some(<<ErrorEvent(taskId, tried.error, now, suffixes[1])>>))
    ELSE tried

\* ------------------------- EventTransformer: the variant of EventTransformer.ts
\* This variant returns one Content or null, discards every ask message, and
\* attaches no data.  A Content is returned as Some(content), null as None.
SaysWithIdDiscarding == SaysWithId \cup {"browser_action"}

\* The Content of a part_002 mapping, without its data.
ContentOf(mapped) == Return(Some(mapped.value.content[1][1]))

\* transformSayMessage(message) of EventTransformer.ts
TransformSayMessageDiscarding(message) ==
    LET say == message.say
        text == message.text
    IN
    CASE say = "reasoning" ->
           IF Truthy(text)
           THEN Return(Some([role |-> "model",
                             parts |-> <<[text |-> text[1], thought |-> TRUE]>>]))
           ELSE Return(None)
      [] say = "text" ->
           IF Truthy(text)
           THEN Return(Some([role |-> "model", parts |-> <<[text |-> text[1]]>>]))
           ELSE Return(None)
      [] say \in {"api_req_started", "api_req_finished"} -> Return(None)
      [] say \in SaysWithIdDiscarding ->
           LET id == TsToString(message) IN
           IF id.threw THEN id
           ELSE IF say = "browser_action"
           THEN LET action == OrElse(text, "Browser action initiated") IN
                Return(Some([role |-> "model",
                             parts |-> <<[functionCall |->
                                [name |-> "browser_action",
                                 args |-> IF HasImages(message)
                                          THEN [action |-> action,
                                                images |-> message.images[1]]
                                          ELSE [action |-> action],
                                 id |-> id.value]]>>]))
           ELSE ContentOf(SayWithId(message, id.value))
      [] say = "browser_action_result" ->
           LET result == OrElse(text, "") IN
           Return(Some([role |-> "user",
                        parts |-> <<[functionResponse |->
                           [name |-> "browser_action",
                            response |-> IF HasImages(message)
                                         THEN [result |-> result,
                                               screenshots |-> message.images[1]]
                                         ELSE [result |-> result]]]>>]))
      [] say = "error" ->
           Return(Some([role |-> "user",
                        parts |-> <<[text |-> "Error: "
                                               \o OrElse(text, "Unknown error")]>>]))
      [] say \in {"completion_result", "user_feedback", "user_feedback_diff"} ->
           IF Truthy(text)
           THEN Return(Some([role |-> "user", parts |-> <<[text |-> text[1]]>>]))
           ELSE Return(Some([role |-> "user"]))
      [] say = "subtask_result" ->
           Return(Some([role |-> "user",
                        parts |-> <<[functionResponse |->
                           [name |-> "complete_subtask",
                            response |-> [result |-> OrElse(text, "")]]]>>]))
      [] OTHER ->
           Return(Some([role |-> "model",
                        parts |-> <<[text |-> Placeholder(text, say)]>>]))

\* messageToGenAIContent(message) of EventTransformer.ts
MessageToGenAIContentDiscarding(message) ==
    CASE message.type = "say" -> TransformSayMessageDiscarding(message)
      [] message.type = "ask" -> Return(None)
      [] OTHER -> Return(None)

\* A try block that tests only for a missing Content, not for missing parts.
TransformMessageEventDiscardingKeepsEmpty(taskId, message, now, suffix) ==
    IF message = None
    THEN Throw("Cannot read properties of undefined (reading 'type')")
    ELSE
    LET mapped == MessageToGenAIContentDiscarding(message[1]) IN
    IF mapped.threw THEN mapped
    ELSE IF mapped.value = None THEN Return(None)
    ELSE Return(Some([type |-> "message",
                      content |-> mapped.value[1],
                      task_id |-> taskId,
                      event_id |-> GenerateEventId(now, suffix),
                      timestamp |-> now]))

\* The try block of transformMessageEvent of EventTransformer.ts.
TransformMessageEventDiscardingTry(taskId, message, now, suffix) ==
    IF message = None
    THEN Throw("Cannot read properties of undefined (reading 'type')")
    ELSE
    LET mapped == MessageToGenAIContentDiscarding(message[1]) IN
    IF mapped.threw THEN mapped
    ELSE
    LET content == mapped.value IN
    IF content = None
       \/ "parts" \notin DOMAIN content[1]
       \/ Len(content[1].parts) = 0
    THEN Return(None)
    ELSE Return(Some([type |-> "message",
                      content |-> content[1],
                      task_id |-> taskId,
                      event_id |-> GenerateEventId(now, suffix),
                      timestamp |-> now]))

\* transformMessageEvent(taskId, message): StreamEvent | null
TransformMessageEventDiscarding(taskId, message, now, suffix) ==
    LET tried == TransformMessageEventDiscardingTry(taskId, message, now, suffix) IN
    IF tried.threw
    THEN Return(Some(ErrorEvent(taskId, tried.error, now, suffix)))
    ELSE tried

\* --------------------------------------- EventTransformer: inputs and calls
TaskIds == {"task-1", "task-2"}

\* The say categories either variant names.
NamedSays ==
    IgnoredSays \cup SaysWithIdDiscarding \cup
    {"reasoning", "text", "browser_action_result", "error", "completion_result",
     "user_feedback", "user_feedback_diff", "subtask_result"}

\* The say categories fed in: the named ones, and one neither variant names.
Says == NamedSays \cup {"condense_context"}

\* The ask categories transformAskMessage names.
NamedAsks == {"tool"} \cup DOMAIN AskPlaceholder

\* The ask categories fed in: the named ones, and one it does not name.
Asks == NamedAsks \cup {"payment_required_prompt"}

Texts == {None, Some(""), Some("hello"), Some("null"),
          Some(ToolCallText), Some(ToolResultText)}

Timestamps == {None} \cup {Some(t) : t \in 1..MaxTs}

Images == {None, Some(<<>>), Some(<<"data:image/png;base64,AAAA">>)}

Reasonings == {None, Some("why")}

\* The ClineMessage values fed in.  A say message has no ask and an ask
\* message no say ("" stands for the absent discriminator); a message of
\* another type has neither.
Messages ==
    {[type |-> d[1], say |-> d[2], ask |-> d[3], text |-> text, ts |-> ts,
      partial |-> partial, images |-> images, reasoning |-> reasoning] :
        d \in ({"say"} \X Says \X {""}) \cup ({"ask"} \X {""} \X Asks)
              \cup {<<"other", "", "">>},
        text \in Texts, ts \in Timestamps, partial \in BOOLEAN,
        images \in Images, reasoning \in Reasonings}

\* Date.now() readings and Math.random() suffixes.
Times == 1..MaxNow

Suffixes == {"k3x9a1b2c", "z8y7w6v5u"}

\* The outcome of a call as the caller sees it.
Outcome(variant, tried, out) ==
    [called |-> variant,
     raised |-> tried.threw,
     threw |-> out.threw,
     returned |-> IF out.threw THEN None ELSE out.value]

\* The host calls transformMessageEvent (part_002) on the message.
TransformMessageFull ==
    /\ evOut.called = "none"
    /\ \E now \in Times, suffixes \in Suffixes \X Suffixes :
          evOut' = Outcome("full",
                     TransformMessageEventTry(msgIn.taskId, msgIn.message,
                                              now, suffixes),
                     TransformMessageEvent(msgIn.taskId, msgIn.message,
                                           now, suffixes))
    /\ UNCHANGED <<msgIn, config, portStatus, apiVars, httpListening, boundPort, wssState,
                   startPc, portToTry, probed, startError, stops, heartbeatTimer,
                   taskCommandHandler, connections, ws, fault, cmds, lastOp,
                   emitted, delivered>>

\* The host calls transformMessageEvent (EventTransformer.ts) on the message.
TransformMessageDiscarding ==
    /\ evOut.called = "none"
    /\ \E now \in Times, suffix \in Suffixes :
          evOut' = Outcome("discarding",
                     TransformMessageEventDiscardingTry(msgIn.taskId,
                                                        msgIn.message, now, suffix),
                     TransformMessageEventDiscarding(msgIn.taskId,
                                                     msgIn.message, now, suffix))
    /\ UNCHANGED <<msgIn, config, portStatus, apiVars, httpListening, boundPort, wssState,
                   startPc, portToTry, probed, startError, stops, heartbeatTimer,
                   taskCommandHandler, connections, ws, fault, cmds, lastOp,
                   emitted, delivered>>

\* ------------------------------------- EventTransformer: transformTaskEvent
\* args[i - 1] of the rest parameter: undefined past its end.
Arg(args, i) == IF i <= Len(args) THEN Some(args[i]) ELSE None

\* A transformTaskEvent that attaches no data to any event.
TransformTaskEventAlwaysBare(eventName, args, now, suffix) ==
    [type |-> eventName,
     task_id |-> OrElse(Arg(args, 1), "unknown"),
     event_id |-> GenerateEventId(now, suffix),
     timestamp |-> now]

\* transformTaskEvent(eventName, ...args): nothing in its try block throws,
\* so its catch is never entered.  taskId = args[0] || "unknown".
TransformTaskEvent(eventName, args, now, suffix) ==
    LET taskId == OrElse(Arg(args, 1), "unknown")
        base == [type |-> eventName,
                 task_id |-> taskId,
                 event_id |-> GenerateEventId(now, suffix),
                 timestamp |-> now]
    IN
    CASE eventName = "taskTokenUsageUpdated" ->
           [type |-> eventName, task_id |-> taskId,
            event_id |-> GenerateEventId(now, suffix), timestamp |-> now,
            data |-> [tokenUsage |-> Arg(args, 2)]]
      [] eventName = "taskToolFailed" ->
           [type |-> eventName, task_id |-> taskId,
            event_id |-> GenerateEventId(now, suffix), timestamp |-> now,
            data |-> [tool_name |-> Arg(args, 2), error |-> Arg(args, 3)]]
      [] OTHER -> base

\* The event names fed in: the seven lifecycle names, the two that carry data,
\* and one transformTaskEvent has no case for.
LifecycleNames ==
    {"taskCreated", "taskStarted", "taskCompleted", "taskPaused", "taskUnpaused",
     "taskAborted", "taskModeSwitched"}

TaskEventNames ==
    LifecycleNames \cup {"taskTokenUsageUpdated", "taskToolFailed", "taskSpawned"}

\* The values an argument takes (a task id, a tool name or mode, the empty
\* string) and the argument lists fed in, the empty one included.
ArgValues == {"", "task-1", "read_file"}

ArgLists ==
    {<<>>} \cup {<<a>> : a \in ArgValues}
           \cup {<<a, b>> : a \in ArgValues, b \in ArgValues}
           \cup {<<a, b, c>> : a \in ArgValues, b \in ArgValues, c \in ArgValues}

\* The host calls transformTaskEvent(eventName, ...args); the call's input is
\* msgIn = [eventName, args].
TransformTask ==
    /\ evOut.called = "none"
    /\ \E now \in Times, suffix \in Suffixes :
          evOut' = [called |-> "task", raised |-> FALSE, threw |-> FALSE,
                    returned |-> Some(TransformTaskEvent(msgIn.eventName, msgIn.args,
                                                         now, suffix))]
    /\ UNCHANGED <<msgIn, config, portStatus, apiVars, httpListening, boundPort, wssState,
                   startPc, portToTry, probed, startError, stops, heartbeatTimer,
                   taskCommandHandler, connections, ws, fault, cmds, lastOp,
                   emitted, delivered>>

\* ------------------------------------------ API.emit -> broadcastEvent
\* The messages the host emits in the pipeline: a finished text, the same
\* text while still partial, and a tool request with its inline result.
PipeMessages ==
    {m \in Messages :
        /\ m.ts = Some(1) /\ m.images = None /\ m.reasoning = None
        /\ \/ m.type = "say" /\ m.say = "text" /\ m.text = Some("hello")
           \/ /\ m.type = "ask" /\ m.ask = "tool" /\ ~m.partial
              /\ m.text = Some(ToolResultText)}

\* The task event the host emits in the pipeline.
PipeTaskEvents == {"taskStarted"}

\* A socket write put in front of the frames written before it.
WriteFramePrepend(frames, frame) == <<frame>> \o frames

\* ws.send(frame): the frame follows what was written to the socket before.
WriteFrame(frames, frame) == Append(frames, frame)

\* JSON.stringify(event) of sendToWebSocketClient: one frame per call.  The
\* frame holds the Stream Events of the value it was given: the elements of
\* an array, or the one object.
Frame(i, streamEvent, isArray) ==
    [emit |-> i, array |-> isArray,
     events |-> IF isArray THEN streamEvent ELSE <<streamEvent>>]

\* broadcastToStreamingServer from the transformer's result on:
\*   if (streamEvent) this.streamingServer.broadcastEvent(streamEvent)
\* streamEvent is None for null, Some(v) for what transform returned.
\* `emission` is the record kept of the emit: [eventName, taskId, streamEvent]
\* and, for a message, the message's ts.
EmitRecord(emission, isArray) ==
    /\ emitted' = Append(emitted, emission)
    /\ IF emission.streamEvent = None
       THEN /\ lastOp' = NoOp
            /\ UNCHANGED <<connections, delivered>>
       ELSE /\ DoBroadcast("message", TRUE)
            /\ delivered' =
                 [c \in Conns |->
                    IF BroadcastEvent(TRUE).writes[c] > 0
                    THEN WriteFrame(delivered[c],
                            Frame(Len(emitted) + 1, emission.streamEvent[1], isArray))
                    ELSE delivered[c]]
    /\ UNCHANGED <<config, portStatus, apiVars, httpListening, boundPort, wssState, startPc,
                   portToTry, probed, startError, stops, heartbeatTimer,
                   taskCommandHandler, ws, fault, cmds, msgIn, evOut>>

Emit(eventName, taskId, streamEvent, isArray) ==
    EmitRecord([eventName |-> eventName, taskId |-> taskId,
                streamEvent |-> streamEvent], isArray)

\* API.emit(Message, {taskId, message}): transformMessageEvent of part_002,
\* whose array is handed to broadcastEvent as one value.
EmitMessage ==
    /\ Len(emitted) < MaxEmit
    /\ \E taskId \in TaskIds, m \in PipeMessages, now \in Times,
          suffixes \in Suffixes \X Suffixes :
           LET out == TransformMessageEvent(taskId, Some(m), now, suffixes)
           IN Emit("message", taskId,
                   IF out.threw THEN None ELSE out.value, TRUE)

\* API.emit(eventName, taskId, ...): transformTaskEvent, then broadcastEvent.
EmitTaskEvent ==
    /\ Len(emitted) < MaxEmit
    /\ \E taskId \in TaskIds, eventName \in PipeTaskEvents, now \in Times,
          suffix \in Suffixes :
           Emit(eventName, taskId,
                Some(TransformTaskEvent(eventName, <<taskId>>, now, suffix)),
                FALSE)

\* The messages by which the agent reports an action and, later, its result:
\* an MCP request and its response, a browser action and its result.
ActionSays ==
    {"mcp_server_request_started", "mcp_server_response", "browser_action",
     "browser_action_result"}

ActionMessages ==
    {m \in Messages :
        /\ m.type = "say" /\ m.say \in ActionSays /\ ~m.partial
        /\ m.ts # None /\ m.text = Some("hello")
        /\ m.images = None /\ m.reasoning = None}

\* API.emit(Message, {taskId, message}) for an action message.  A message's ts
\* is the host's clock at its creation: it is not older than the ts of the
\* message emitted before it.
EmitActionMessage ==
    /\ Len(emitted) < MaxEmit
    /\ \E taskId \in TaskIds, m \in ActionMessages, now \in Times,
          suffixes \in Suffixes \X Suffixes :
           /\ emitted # <<>> => m.ts[1] >= Last(emitted).ts
           /\ LET out == TransformMessageEvent(taskId, Some(m), now, suffixes)
              IN EmitRecord([eventName |-> "message", taskId |-> taskId,
                             streamEvent |-> IF out.threw THEN None ELSE out.value,
                             ts |-> m.ts[1]], TRUE)

\* --------------------------------------------------------- specifications
\* The server constructed with a port range whose first port is already taken:
\* start() meets one conflict before it binds.
Init ==
    /\ Constructed([port |-> 1, portRange |-> [min |-> 1, max |-> MaxPort]],
                   [p \in Ports |-> IF p = 1 THEN "inuse" ELSE "free"])
    /\ TransformerIdle

\* Environment and lifecycle steps every server specification shares.
Lifecycle ==
    \/ Start
    \/ OnListening
    \/ OnError
    \/ \E c \in Conns : Connect(c)
    \/ \E c \in Conns : PeerClosing(c)
    \/ \E c \in Conns : OnClose(c)
    \/ \E c \in Conns : OnWsError(c)
    \/ \E c \in Conns : TransportFault(c)
    \/ Heartbeat
    \/ Stop
    \/ \E k \in StopIds : OnWssClosed(k)
    \/ \E k \in StopIds : OnHttpClosed(k)

\* Spec: the server's lifecycle, registry and broadcasts.
Next ==
    \/ Lifecycle
    \/ \E ser \in BOOLEAN : HostBroadcast(ser)
    \/ \E c \in Conns, kind \in {"malformed", "unknown"} : ProtocolErrorFrame(c, kind)

Spec == Init /\ [][Next]_vars

\* SpecCmd: the same server receiving task commands.
NextCmd ==
    \/ Lifecycle
    \/ HostBroadcast(FALSE)
    \/ SetTaskCommandHandler
    \/ \E c \in Conns, n \in CommandNames : TaskCommandFrame(c, n)
    \/ \E k \in CmdIds, ok \in BOOLEAN : HandlerDone(k, ok)

SpecCmd == Init /\ [][NextCmd]_vars

\* SpecStart: start() alone, under every configuration of preferred port and
\* port range and every outcome binding each port can have.
PortRanges == {NoRange} \cup {[min |-> a, max |-> b] : a \in Ports, b \in Ports}

InitStart ==
    /\ \E p \in Ports, r \in PortRanges, st \in [Ports -> {"free", "inuse", "denied"}] :
          /\ r = NoRange \/ r.min <= r.max
          /\ Constructed([port |-> p, portRange |-> r], st)
    /\ TransformerIdle

NextStart ==
    \/ Start
    \/ OnListening
    \/ OnError

SpecStart == InitStart /\ [][NextStart]_vars

\* The transformer alone: any message, or none, handed to either variant.
InitTransform ==
    /\ Constructed([port |-> 1, portRange |-> NoRange],
                   [p \in Ports |-> "free"])
    /\ msgIn \in [taskId : TaskIds,
                  message : {None} \cup {Some(m) : m \in Messages}]
    /\ evOut = [called |-> "none", raised |-> FALSE, threw |-> FALSE,
                returned |-> None]

NextTransform ==
    \/ TransformMessageFull
    \/ TransformMessageDiscarding

SpecTransform == InitTransform /\ [][NextTransform]_vars

\* The host pipeline: events emitted while connections come and go and the
\* heartbeat fires.
NextPipe ==
    \/ Start
    \/ OnListening
    \/ OnError
    \/ \E c \in Conns : Connect(c)
    \/ \E c \in Conns : PeerClosing(c)
    \/ \E c \in Conns : OnClose(c)
    \/ \E c \in Conns : OnWsError(c)
    \/ \E c \in Conns : TransportFault(c)
    \/ Heartbeat
    \/ EmitMessage
    \/ EmitTaskEvent

SpecPipe == Init /\ [][NextPipe]_vars

\* transformTaskEvent on every event name and argument list.
InitTask ==
    /\ Constructed([port |-> 1, portRange |-> NoRange],
                   [p \in Ports |-> "free"])
    /\ msgIn \in [eventName : TaskEventNames, args : ArgLists]
    /\ evOut = [called |-> "none", raised |-> FALSE, threw |-> FALSE,
                returned |-> None]

NextTask == TransformTask

SpecTask == InitTask /\ [][NextTask]_vars

\* The heartbeat's Stream Event: event_id, type, timestamp and data, each
\* timestamp a reading of Date.now(); no task_id and no content.
HeartbeatEvent(now, later, suffix) ==
    [event_id |-> GenerateEventId(now, suffix),
     type |-> "heartbeat",
     timestamp |-> now,
     data |-> [timestamp |-> later]]

\* A heartbeat callback that saves the broadcast when nobody is registered.
HeartbeatBroadcastSkipsIdle(event) ==
    IF connections = <<>>
    THEN /\ lastOp' = NoOp
         /\ UNCHANGED <<connections, delivered>>
    ELSE /\ DoBroadcast("heartbeat", TRUE)
         /\ delivered' =
              [c \in Conns |->
                 IF BroadcastEvent(TRUE).writes[c] > 0
                 THEN WriteFrame(delivered[c], Frame(Len(emitted) + 1, event, FALSE))
                 ELSE delivered[c]]

\* this.broadcastEvent(heartbeatEvent) of the timer callback, with the frames
\* it writes.
HeartbeatBroadcast(event) ==
    /\ DoBroadcast("heartbeat", TRUE)
    /\ delivered' =
         [c \in Conns |->
            IF BroadcastEvent(TRUE).writes[c] > 0
            THEN WriteFrame(delivered[c], Frame(Len(emitted) + 1, event, FALSE))
            ELSE delivered[c]]

\* The interval of setupHeartbeat fires, with the firing logged: the event
\* built and the registry at that moment.
HeartbeatFires ==
    /\ heartbeatTimer # 0
    /\ Len(emitted) < MaxEmit
    /\ \E now \in Times, later \in Times, suffix \in Suffixes :
          /\ now <= later
          /\ emitted' = Append(emitted,
                [eventName |-> "heartbeat",
                 streamEvent |-> Some(HeartbeatEvent(now, later, suffix)),
                 registered |-> connections])
          /\ HeartbeatBroadcast(HeartbeatEvent(now, later, suffix))
    /\ UNCHANGED <<config, portStatus, apiVars, httpListening, boundPort, wssState, startPc,
                   portToTry, probed, startError, stops, heartbeatTimer,
                   taskCommandHandler, ws, fault, cmds, msgIn, evOut>>

\* The server with its configuration updated at any moment.
NextConfig ==
    \/ Lifecycle
    \/ SetTaskCommandHandler
    \/ \E newConfig \in ConfigOverrides : UpdateConfig(newConfig)

SpecConfig == Init /\ [][NextConfig]_vars

\* The server with its heartbeat firings logged.
NextBeat ==
    \/ Start
    \/ OnListening
    \/ OnError
    \/ \E c \in Conns : Connect(c)
    \/ \E c \in Conns : PeerClosing(c)
    \/ \E c \in Conns : OnClose(c)
    \/ \E c \in Conns : OnWsError(c)
    \/ \E c \in Conns : TransportFault(c)
    \/ HeartbeatFires
    \/ Stop
    \/ \E k \in StopIds : OnWssClosed(k)
    \/ \E k \in StopIds : OnHttpClosed(k)

SpecBeat == Init /\ [][NextBeat]_vars

\* The host emitting action messages to the clients of a started server.
NextAction ==
    \/ Start
    \/ OnListening
    \/ OnError
    \/ \E c \in Conns : Connect(c)
    \/ EmitActionMessage

SpecAction == Init /\ [][NextAction]_vars

\* ================================================================== claims
IsPrefix(s, t) == Len(s) <= Len(t) /\ \A i \in 1..Len(s) : s[i] = t[i]

\* The connections of the last broadcast's snapshot whose write failed: the
\* socket was open and the transport (or the serialization) threw.
FailedInLastBroadcast ==
    {c \in Range(lastOp.before) :
        ws[c] = "OPEN" /\ (fault[c] \/ ~lastOp.serializable)}

FullStopLog ==
    <<"clearInterval", "closeConnections", "clearRegistry", "wssClose",
      "serverClose", "resolve">>

\* C7 -- stop() teardown order.  Each stop() runs its steps in the order
\* clearInterval, close connections, clear registry, close the WebSocket
\* server, close the listener, resolve; the step that closes the listener is
\* taken with the timer cancelled and the registry empty; and a stop() is
\* resolved only with the WebSocket server closed and the listener closed.
C7_StopTeardownOrder ==
    /\ [](\A k \in 1..Len(stops) :
            /\ IsPrefix(stops[k].log, FullStopLog)
            /\ stops[k].pc = "resolved" =>
                 /\ stops[k].log = FullStopLog
                 /\ wssState = "closed"
                 /\ ~httpListening
                 /\ heartbeatTimer = 0
                 /\ connections = <<>>)
    /\ [][\A k \in 1..Len(stops) :
            (stops[k].pc = "wssClosing" /\ stops'[k].pc # "wssClosing")
                => (heartbeatTimer = 0 /\ connections = <<>> /\ Clients = {}
                    /\ stops'[k].pc = "httpClosing")]_vars

\* C7 witness: a stop() called with a connection registered has resolved.
C7_Witness ==
    \E k \in 1..Len(stops) :
        /\ stops[k].pc = "resolved"
        /\ ~stops[k].onStopped
        /\ \E c \in Conns : ws[c] = "CLOSED"

\* C8 -- stop() is idempotent.  A stop() called on a server that is already
\* stopped (never started, start failed, or an earlier stop() done: no listener,
\* no client) leaves zero registered connections, and it always can take its
\* next step up to resolving: nothing it waits for is missing, nothing fails.
C8_StopIdempotent ==
    \A k \in 1..Len(stops) :
        stops[k].onStopped =>
            /\ connections = <<>>
            /\ stops[k].pc \in {"wssClosing", "httpClosing", "resolved"}
            /\ stops[k].pc = "wssClosing" => ENABLED OnWssClosed(k)
            /\ stops[k].pc = "httpClosing" => ENABLED OnHttpClosed(k)

\* C8 witness: a second stop(), called after the first one resolved on a server
\* that had been listening, has resolved too.
C8_Witness ==
    /\ Len(stops) = 2
    /\ startPc = "resolved"
    /\ ~stops[1].onStopped
    /\ stops[2].onStopped
    /\ stops[2].pc = "resolved"
    /\ connections = <<>>

\* C9 -- Heartbeat window, as claimed: a heartbeat event is synthesized and
\* broadcast only between a successful start() and the next stop().
C9_HeartbeatOnlyWhileStarted ==
    (lastOp.kind = "broadcast" /\ lastOp.type = "heartbeat")
        => (startPc = "resolved" /\ stops = <<>>)

\* The frames of `type` written to connection c in answer to command k.
RepliesTo(k, c, type) ==
    SelectSeq(cmds[k].writes, LAMBDA f : f.to = c /\ f.type = type)

Settled(k, outcomes) == cmds[k].state = "done" /\ cmds[k].outcome \in outcomes

\* C2 as claimed -- whenever the handler completes successfully, exactly one
\* taskCommandAck is written back to the originating connection and no error
\* frame is written for the command.
C2_AckAlwaysWritten ==
    \A k \in 1..Len(cmds) :
        Settled(k, {"ok"}) =>
            /\ Len(RepliesTo(k, cmds[k].conn, "taskCommandAck")) = 1
            /\ \A i \in 1..Len(cmds[k].writes) : cmds[k].writes[i].type # "error"

\* C2 amended -- when the handler completes successfully and the originating
\* connection is then still registered with an open socket that accepts the
\* write, the frames written for the command are exactly one taskCommandAck
\* naming the command, to that connection; otherwise nothing is written for it.
\* In no case is an error frame written for the command.
C2_AckWhenReachable ==
    \A k \in 1..Len(cmds) :
        Settled(k, {"ok"}) =>
            cmds[k].writes =
                IF cmds[k].reachable
                THEN <<Reply(cmds[k].conn, "taskCommandAck", cmds[k].name)>>
                ELSE <<>>

\* C2 witness: with two connections registered and open, a command received
\* on the second one was acknowledged, once, on the second one.
C2_Witness ==
    \E k \in 1..Len(cmds) :
        /\ Settled(k, {"ok"})
        /\ cmds[k].conn = 2
        /\ cmds[k].writes = <<Reply(2, "taskCommandAck", cmds[k].name)>>
        /\ Len(connections) = 2

\* C3 -- Command round trip, failure, for a command whose originating
\* connection is still registered and open when the failure is reported: no
\* handler registered or the handler raised => exactly one error frame on the
\* originating connection, no taskCommandAck, and no exception leaves
\* handleTaskCommand.
C3_ErrorReplyNoEscape ==
    \A k \in 1..Len(cmds) :
        (/\ Settled(k, {"nohandler", "raised"})
         /\ cmds[k].conn \in Range(connections)
         /\ ws[cmds[k].conn] = "OPEN")
            => /\ Len(RepliesTo(k, cmds[k].conn, "error")) = 1
               /\ \A i \in 1..Len(cmds[k].writes) : cmds[k].writes[i].type # "taskCommandAck"
               /\ ~cmds[k].escaped

\* C4 -- Response isolation.  Every frame written in answer to a command
\* (taskCommandAck or error) goes to the connection the command arrived on,
\* and a broadcast carries neither kind of frame.
C4_ResponseIsolation ==
    /\ \A k \in 1..Len(cmds) :
          \A i \in 1..Len(cmds[k].writes) : cmds[k].writes[i].to = cmds[k].conn
    /\ lastOp.kind = "broadcast" => lastOp.type \in {"heartbeat", "message"}

\* C4 witness: a failed command was answered on its own connection while
\* another connection was registered, open and writable.
C4_Witness ==
    \E k \in 1..Len(cmds) :
        /\ Settled(k, {"raised", "nohandler"})
        /\ cmds[k].writes # <<>>
        /\ \E c \in Conns \ {cmds[k].conn} : Reachable(c)

\* The port start() was asked to prefer (config.port is overwritten on success).
Preferred == IF probed = <<>> THEN config.port ELSE probed[1]

StartSettled == startPc \in {"resolved", "rejected"}

\* The lowest port from p up to the range's maximum that is not in use, 0 when
\* every one of them is in use.
RECURSIVE FirstNotInUse(_, _)
FirstNotInUse(p, max) ==
    IF p > max THEN 0
    ELSE IF portStatus[p] # "inuse" THEN p
    ELSE FirstNotInUse(p + 1, max)

\* C5 -- Port acquisition, success.  With a range [min,max], min <= p < max,
\* the preferred port p in use, and q the lowest port in p..max that is not in
\* use, q being free: start() settles resolved, bound to q, having probed
\* p, p+1, ..., q; and in every state the ports probed so far are consecutive
\* and increasing.
C5_BindsLowestFreePort ==
    /\ \A i \in 1..Len(probed) : probed[i] = Preferred + i - 1
    /\ LET r == config.portRange
           q == FirstNotInUse(Preferred, r.max)
       IN (/\ StartSettled
           /\ r # NoRange /\ r.min <= Preferred /\ Preferred < r.max
           /\ portStatus[Preferred] = "inuse"
           /\ q # 0 /\ portStatus[q] = "free")
              => /\ startPc = "resolved"
                 /\ httpListening
                 /\ boundPort = q
                 /\ Len(probed) = q - Preferred + 1

\* C5 witness: the preferred port and the next one were in use, the third was
\* free and is the one bound.
C5_Witness ==
    /\ startPc = "resolved"
    /\ Len(probed) = 3
    /\ portStatus[probed[1]] = "inuse"
    /\ portStatus[probed[2]] = "inuse"
    /\ boundPort = probed[3]
    /\ config.portRange.min <= probed[1]

\* C6 -- Port acquisition, exhaustion.  With the preferred port inside the
\* range and every port of the range in use, start() never resolves and no
\* listener is ever bound; while probing, the next bind error is pending; once
\* settled, start() is rejected with the no-available-port error.
C6_ExhaustionFails ==
    LET r == config.portRange
    IN (/\ r # NoRange /\ r.min <= Preferred /\ Preferred <= r.max
        /\ \A p \in r.min..r.max : portStatus[p] = "inuse")
           => /\ startPc # "resolved"
              /\ ~httpListening
              /\ boundPort = 0
              /\ startPc = "probing" => ENABLED OnError
              /\ startPc = "rejected" => (startError = "exhausted" /\ Last(probed) = r.max)

\* C6 witness: two ports of a fully occupied range were probed and start()
\* was rejected for want of a port.
C6_Witness ==
    /\ startPc = "rejected"
    /\ startError = "exhausted"
    /\ Len(probed) = 2
    /\ config.portRange # NoRange
    /\ \A p \in config.portRange.min..config.portRange.max : portStatus[p] = "inuse"
    /\ ~httpListening

\* The messages of the errors the mapping can raise.
FailureMessages ==
    {"Cannot read properties of undefined (reading 'partial')",
     "Cannot read properties of undefined (reading 'type')",
     "Cannot read properties of undefined (reading 'toString')"}

\* The events a call returned, as a sequence, for either variant.
ReturnedEvents ==
    IF evOut.returned = None THEN <<>>
    ELSE IF evOut.called = "full" THEN evOut.returned[1]
    ELSE <<evOut.returned[1]>>

\* C10: transformMessageEvent returns normally for every message, malformed
\* ones included; when the mapping raised, the result is exactly one event of
\* type "error" that carries the call's task_id and a description of the
\* failure, and nothing is thrown to the caller.
C10_TransformNeverThrows ==
    evOut.called # "none" =>
        /\ ~evOut.threw
        /\ evOut.raised =>
              /\ Len(ReturnedEvents) = 1
              /\ ReturnedEvents[1].type = "error"
              /\ ReturnedEvents[1].task_id = msgIn.taskId
              /\ ReturnedEvents[1].data.error \in
                    {"Error transforming message: " \o m : m \in FailureMessages}

\* A command_output message without ts made message.ts.toString() raise, and
\* the call returned the single error event.
C10_Witness ==
    /\ evOut.called = "full"
    /\ msgIn.message # None
    /\ msgIn.message[1].type = "say"
    /\ msgIn.message[1].say = "command_output"
    /\ msgIn.message[1].ts = None
    /\ ~msgIn.message[1].partial
    /\ evOut.raised
    /\ ~evOut.threw
    /\ Len(ReturnedEvents) = 1
    /\ ReturnedEvents[1].type = "error"
    /\ ReturnedEvents[1].task_id = msgIn.taskId

\* ------------------------------------------------ transformer claims C11..C16
\* The message of the call, when the caller passed one.
HasMessage == evOut.called # "none" /\ msgIn.message # None

Message == msgIn.message[1]

\* The parts of the k-th returned event's Content.
PartsOf(k) == ReturnedEvents[k].content.parts

\* C11 -- Partial suppression, as claimed: for every message flagged partial,
\* of any kind and category, transformMessageEvent yields no Stream Event.
C11_PartialSuppressed ==
    (HasMessage /\ Message.partial) => ReturnedEvents = <<>>

\* The category of a message that falls to a default case of the variant
\* called: a say category in no table, or (part_002) an ask category in none.
DefaultCase ==
    /\ HasMessage
    /\ ~Message.partial
    /\ \/ Message.type = "say" /\ Message.say \notin NamedSays
       \/ /\ evOut.called = "full"
          /\ Message.type = "ask" /\ Message.ask \notin NamedAsks

Category == IF Message.type = "say" THEN Message.say ELSE Message.ask

\* The ways a text part can include the bracketed tag next to the text.
TagRenderings(tag, text) ==
    IF Truthy(text)
    THEN {tag \o text[1], text[1] \o tag, tag \o " " \o text[1],
          text[1] \o " " \o tag, tag \o ": " \o text[1]}
    ELSE {tag}

\* C12 as claimed -- for every non-partial message whose category is in
\* neither table, with or without text, the result holds exactly one text
\* part, and its content includes the bracketed tag of the category.
C12_PlaceholderAlwaysTagged ==
    DefaultCase =>
        /\ Len(ReturnedEvents) = 1
        /\ Len(PartsOf(1)) = 1
        /\ DOMAIN PartsOf(1)[1] = {"text"}
        /\ PartsOf(1)[1].text \in
              TagRenderings("[" \o Category \o "]", Message.text)

\* C12 amended -- for every non-partial message whose category is in neither
\* table, the result is exactly one "message" event with exactly one text
\* part: the message text when it is non-empty, and the bracketed tag of the
\* category only when the text is absent or empty.
C12_PlaceholderOrText ==
    DefaultCase =>
        /\ Len(ReturnedEvents) = 1
        /\ ReturnedEvents[1].type = "message"
        /\ Len(PartsOf(1)) = 1
        /\ DOMAIN PartsOf(1)[1] = {"text"}
        /\ PartsOf(1)[1].text =
              IF Truthy(Message.text) THEN Message.text[1]
              ELSE "[" \o Category \o "]"

\* An ask message of an unnamed category, without text, came out of the
\* part_002 variant as the bracketed tag.
C12_Witness ==
    /\ DefaultCase
    /\ Message.type = "ask"
    /\ Message.text = None
    /\ Len(ReturnedEvents) = 1
    /\ PartsOf(1) = <<[text |-> "[payment_required_prompt]"]>>

\* The bookkeeping categories: request lifecycle, checkpoint markers,
\* integration warnings, diff-computation errors.
BookkeepingSays ==
    {"api_req_started", "api_req_finished", "api_req_retried",
     "api_req_retry_delayed", "api_req_deleted", "checkpoint_saved",
     "shell_integration_warning", "diff_error"}

\* C13 -- Silent drop set, as claimed: for every say message of a bookkeeping
\* category, whatever its text, transformMessageEvent yields nothing.
C13_SilentDropSet ==
    (HasMessage /\ Message.type = "say" /\ Message.say \in BookkeepingSays)
        => ReturnedEvents = <<>>

\* A non-partial ask message of category tool whose text parses to a payload
\* with inline result content.
ToolWithResult ==
    /\ HasMessage
    /\ ~Message.partial
    /\ Message.type = "ask"
    /\ Message.ask = "tool"
    /\ Message.text = Some(ToolResultText)

\* The returned events are a functionCall followed by a functionResponse
\* with the same tool name and the same correlation id.
IsCallResponsePair ==
    /\ Len(ReturnedEvents) = 2
    /\ PartsOf(1) = <<[functionCall |->
                         [name |-> "readFile", args |-> [path |-> "a.ts"],
                          id |-> ToString(Message.ts[1])]]>>
    /\ PartsOf(2) = <<[functionResponse |->
                         [name |-> "readFile", response |-> [content |-> "body"],
                          id |-> ToString(Message.ts[1])]]>>
    /\ PartsOf(1)[1].functionCall.id = PartsOf(2)[1].functionResponse.id
    /\ PartsOf(1)[1].functionCall.name = PartsOf(2)[1].functionResponse.name

\* C14 as claimed -- every tool request whose payload carries inline result
\* content yields exactly a functionCall envelope followed by a
\* functionResponse envelope with the same correlation id and tool name.
C14_AlwaysPaired ==
    (ToolWithResult /\ Message.ts # None) => IsCallResponsePair

\* C14 amended -- in the variant that maps interactive requests (part_002) a
\* non-partial tool request with a timestamp whose payload carries inline
\* result content yields exactly the call/response pair, both parts with the
\* tool name and the same correlation id; without a timestamp it yields one
\* plain text part holding the raw text; the variant of EventTransformer.ts
\* yields nothing for it.
C14_PairedWhenMapped ==
    ToolWithResult =>
        CASE evOut.called = "discarding" -> ReturnedEvents = <<>>
          [] evOut.called = "full" /\ Message.ts # None -> IsCallResponsePair
          [] OTHER -> /\ Len(ReturnedEvents) = 1
                      /\ PartsOf(1) = <<[text |-> ToolResultText]>>

\* A tool request with inline result content and a timestamp came out of the
\* part_002 variant as the pair.
C14_Witness ==
    /\ ToolWithResult
    /\ evOut.called = "full"
    /\ Message.ts # None
    /\ IsCallResponsePair
    /\ ReturnedEvents[1].task_id = ReturnedEvents[2].task_id

\* The correlation ids on the parts of the returned events.
CorrelationIds ==
    UNION {{p.functionCall.id : p \in {q \in Range(PartsOf(k)) :
                 "functionCall" \in DOMAIN q /\ "id" \in DOMAIN q.functionCall}}
           \cup
           {p.functionResponse.id : p \in {q \in Range(PartsOf(k)) :
                 "functionResponse" \in DOMAIN q
                 /\ "id" \in DOMAIN q.functionResponse}} :
           k \in {j \in 1..Len(ReturnedEvents) :
                     ReturnedEvents[j].type = "message"}}

\* C15 -- Correlation-id determinism.  Whatever the clock, the random draws,
\* the task, the text and the variant of a call, every correlation id on a
\* functionCall or functionResponse part it returns is the decimal rendering
\* of the message's timestamp: the same message gives the same id each time.
C15_CorrelationIdFromTimestamp ==
    HasMessage => \A id \in CorrelationIds : 
                      Message.ts # None /\ id = ToString(Message.ts[1])

\* A command_output message with the second timestamp produced a
\* functionResponse whose id renders that timestamp.
C15_Witness ==
    /\ HasMessage
    /\ Message.type = "say"
    /\ Message.say = "command_output"
    /\ Message.ts = Some(MaxTs)
    /\ CorrelationIds = {ToString(MaxTs)}

\* A non-partial tool request whose text is not a structured payload.
ToolUnparsable ==
    /\ HasMessage
    /\ evOut.called = "full"
    /\ ~Message.partial
    /\ Message.type = "ask"
    /\ Message.ask = "tool"
    /\ Message.text \in {Some("hello")}

C19_FanOutBound ==
    lastOp.kind = "broadcast" =>
        \A c \in Conns :
            /\ lastOp.writes[c] <= 1
            /\ lastOp.writes[c] > 0 => c \in Range(lastOp.before)

\* A broadcast wrote one frame to the registered connection 2 and none to
\* connection 1, whose socket is open and healthy but not in the registry.
C19_Witness ==
    /\ lastOp.kind = "broadcast"
    /\ lastOp.before = <<2>>
    /\ lastOp.writes[2] = 1
    /\ lastOp.writes[1] = 0
    /\ ws[1] = "OPEN"
    /\ ~fault[1]

\* C20 -- Protocol errors leave state untouched.  A step that handles an
\* inbound frame that is malformed or of an unknown type changes neither the
\* registry, nor any socket, nor the commands handed to the handler, nor the
\* handler, the timer or the listener (it writes to no connection); the
\* sending connection keeps its place in the registry and its socket still
\* takes frames.
C20_ProtocolErrorsLeaveState ==
    [][lastOp'.kind = "frame" =>
          /\ UNCHANGED <<connections, ws, fault, cmds, taskCommandHandler,
                         heartbeatTimer, httpListening, wssState, stops>>
          /\ ws'[lastOp'.conn] \in {"OPEN", "CLOSING"}]_vars

\* A malformed frame was handled on a registered, open connection.
C20_Witness ==
    /\ lastOp.kind = "frame"
    /\ lastOp.frame = "malformed"
    /\ lastOp.conn \in Range(connections)
    /\ ws[lastOp.conn] = "OPEN"

\* ---------------------------------------------------- pipeline claims C17, C18
\* The Stream Events the transformer returned for the i-th emitted host event.
EventsOf(i) ==
    LET r == emitted[i].streamEvent
    IN IF r = None THEN <<>>
       ELSE IF emitted[i].eventName = "message" THEN r[1] ELSE <<r[1]>>

\* The frames of the i-th emitted host event written to connection c.
FramesFor(i, c) == SelectSeq(delivered[c], LAMBDA f : f.emit = i)

\* C17 -- Multi-envelope expansion, as claimed: a message that maps to k > 1
\* Content Envelopes produces k Stream Events with the same task_id, and every
\* connection it is written to gets them as k frames, one Stream Event per
\* transport write, in envelope order.
C17_OneFramePerEvent ==
    \A i \in 1..Len(emitted) :
        Len(EventsOf(i)) > 1 =>
            /\ \A j \in 1..Len(EventsOf(i)) :
                  EventsOf(i)[j].task_id = emitted[i].taskId
            /\ \A c \in Conns :
                  FramesFor(i, c) # <<>> =>
                      /\ Len(FramesFor(i, c)) = Len(EventsOf(i))
                      /\ \A j \in 1..Len(EventsOf(i)) :
                            FramesFor(i, c)[j].events = <<EventsOf(i)[j]>>

\* C18 -- Per-task ordering.  On every connection, under every interleaving
\* with connects, disconnects, transport faults and heartbeats, the frames of
\* two host events of the same task lie in the order the host emitted the
\* events, and each frame holds its event's Stream Events in the order the
\* transformer returned them.
C18_PerTaskOrdering ==
    \A c \in Conns :
        /\ \A p, q \in 1..Len(delivered[c]) :
              (/\ p < q
               /\ emitted[delivered[c][p].emit].taskId
                    = emitted[delivered[c][q].emit].taskId)
                 => delivered[c][p].emit < delivered[c][q].emit
        /\ \A p \in 1..Len(delivered[c]) :
              delivered[c][p].events = EventsOf(delivered[c][p].emit)

\* Connection 1 received the frames of two events of one task, a task event
\* and then a message, while connection 2 had connected in between and
\* received only the second.
C18_Witness ==
    /\ Len(emitted) = 2
    /\ emitted[1].taskId = emitted[2].taskId
    /\ emitted[1].eventName = "taskStarted"
    /\ emitted[2].eventName = "message"
    /\ Len(delivered[1]) = 2
    /\ delivered[1][1].emit = 1
    /\ delivered[1][2].emit = 2
    /\ Len(delivered[2]) = 1
    /\ delivered[2][1].emit = 2

\* ------------------------------------------------------------------- C21
\* The calls the host makes on the server: broadcastEvent (directly, through
\* API.broadcastToStreamingServer, or from the heartbeat timer), stop() and
\* start().  stop()'s promise has no reject path: a stop call is waiting for
\* one of its two close callbacks or has resolved.
StopPcs == {"wssClosing", "httpClosing", "resolved"}

StartFailures == {"exhausted", "bind"}

\* C21: no fault reaches the host: every broadcastEvent call returns without an
\* exception leaving it, whatever the sockets and the event's serialization do;
\* no stop() call is ever rejected; and the only failure a caller sees is
\* start() rejecting with a bind error or with port exhaustion.
C21_NoFaultReachesHost ==
    /\ lastOp.kind = "broadcast" => ~lastOp.escaped
    /\ \A k \in 1..Len(stops) : stops[k].pc \in StopPcs
    /\ startPc = "rejected" <=> startError \in StartFailures

\* A broadcast of an event that cannot be serialized: the write to every
\* registered connection threw, and the call still returned.
C21_Witness ==
    /\ lastOp.kind = "broadcast"
    /\ ~lastOp.serializable
    /\ lastOp.threw # {}
    /\ lastOp.threw = Range(lastOp.before)
    /\ ~lastOp.escaped

\* ------------------------------------------------------------------- C22
\* The one part of the Stream Event returned for emission i, when it is a
\* message event (the action messages map to one event with one part).
EmittedPart(i) == emitted[i].streamEvent[1][1].content.parts[1]

HasPart(i) ==
    /\ i \in 1..Len(emitted)
    /\ emitted[i].streamEvent # None
    /\ emitted[i].streamEvent[1][1].type = "message"

\* Emission j reports the result of the action emission i started: a
\* functionCall at i, a functionResponse of the same tool name at j, later, in
\* the same task, with no other message of that task and tool in between.
Answers(i, j) ==
    /\ i < j /\ HasPart(i) /\ HasPart(j)
    /\ emitted[i].taskId = emitted[j].taskId
    /\ "functionCall" \in DOMAIN EmittedPart(i)
    /\ "functionResponse" \in DOMAIN EmittedPart(j)
    /\ EmittedPart(i).functionCall.name = EmittedPart(j).functionResponse.name
    /\ \A k \in (i + 1)..(j - 1) :
          ~(HasPart(k) /\ emitted[k].taskId = emitted[i].taskId)

\* C22: cross-message correlation: when the functionCall part of an action's
\* initiation message and the functionResponse part of the later message that
\* reports its result both carry an id, the two ids are equal.
C22_CrossMessageCorrelation ==
    \A i, j \in 1..Len(emitted) :
        ( /\ Answers(i, j)
          /\ "id" \in DOMAIN EmittedPart(i).functionCall
          /\ "id" \in DOMAIN EmittedPart(j).functionResponse )
        => EmittedPart(i).functionCall.id = EmittedPart(j).functionResponse.id

\* ------------------------------------------------------------------- C23
PartKinds == {"text", "functionCall", "functionResponse"}

\* A Content Envelope that can be sent: a role, and parts of one kind each.
WellFormedContent(content) ==
    /\ content.role \in {"model", "user"}
    /\ "parts" \in DOMAIN content
    /\ Len(content.parts) >= 1
    /\ \A p \in 1..Len(content.parts) :
          Cardinality(DOMAIN content.parts[p] \cap PartKinds) = 1

\* The mapping of the call's message gave nothing to send: no Content at all,
\* or (EventTransformer.ts) a Content without parts.
MappedZeroParts ==
    /\ HasMessage
    /\ ~evOut.raised
    /\ \/ /\ evOut.called = "full"
          /\ ~Message.partial
          /\ LET mapped == MessageToGenAIContent(Message) IN
                \/ mapped.value.content = None
                \/ Len(mapped.value.content[1]) = 0
       \/ /\ evOut.called = "discarding"
          /\ LET mapped == MessageToGenAIContentDiscarding(Message) IN
                \/ mapped.value = None
                \/ "parts" \notin DOMAIN mapped.value[1]
                \/ Len(mapped.value[1].parts) = 0

\* C23: every "message"-typed Stream Event transformMessageEvent returns
\* carries a Content whose role is model or user and that has at least one
\* part, each part being exactly one of text, functionCall, functionResponse;
\* a mapping result with zero parts is discarded and yields no event.
C23_NonEmptyEnvelopes ==
    /\ \A k \in 1..Len(ReturnedEvents) :
          ReturnedEvents[k].type = "message"
             => WellFormedContent(ReturnedEvents[k].content)
    /\ MappedZeroParts => ReturnedEvents = <<>>

\* user_feedback without text: EventTransformer.ts maps it to {role: "user"}
\* with no parts, and the call returned null.
C23_Witness ==
    /\ HasMessage
    /\ evOut.called = "discarding"
    /\ Message.type = "say"
    /\ Message.say = "user_feedback"
    /\ Message.text = None
    /\ MappedZeroParts
    /\ MessageToGenAIContentDiscarding(Message).value # None
    /\ ReturnedEvents = <<>>

\* ------------------------------------------------------------------- C24
\* The event transformTaskEvent returned, once it was called.
TaskCalled == evOut.called = "task"

TaskEvent == evOut.returned[1]

\* args[0] || "unknown"
TaskIdOf(args) == IF args # <<>> /\ args[1] # "" THEN args[1] ELSE "unknown"

\* C24 as claimed -- for every event name and argument list the returned
\* event's task_id is the first argument.
C24_TaskIdIsFirstArgument ==
    TaskCalled => Some(TaskEvent.task_id) = Arg(msgIn.args, 1)

\* C24 -- for every event name and argument list transformTaskEvent returns
\* one Stream Event whose type is the event name and whose task_id is the
\* first argument when that is a non-empty string and "unknown" otherwise; the
\* lifecycle names and every unrecognized name give an event with no data,
\* taskTokenUsageUpdated gives data holding the token usage (the second
\* argument), taskToolFailed gives data holding the tool name and the error
\* (the second and third); the call never fails.
C24_TaskEventMapping ==
    TaskCalled =>
        /\ ~evOut.threw /\ ~evOut.raised
        /\ TaskEvent.type = msgIn.eventName
        /\ TaskEvent.task_id = TaskIdOf(msgIn.args)
        /\ CASE msgIn.eventName = "taskTokenUsageUpdated" ->
                  /\ "data" \in DOMAIN TaskEvent
                  /\ TaskEvent.data = [tokenUsage |-> Arg(msgIn.args, 2)]
             [] msgIn.eventName = "taskToolFailed" ->
                  /\ "data" \in DOMAIN TaskEvent
                  /\ TaskEvent.data = [tool_name |-> Arg(msgIn.args, 2),
                                       error |-> Arg(msgIn.args, 3)]
             [] OTHER -> "data" \notin DOMAIN TaskEvent

\* taskToolFailed with an empty task id, a tool name and an error: the event
\* carries task_id "unknown" and both data fields.
C24_Witness ==
    /\ TaskCalled
    /\ msgIn.eventName = "taskToolFailed"
    /\ msgIn.args = <<"", "read_file", "read_file">>
    /\ TaskEvent.task_id = "unknown"
    /\ TaskEvent.data.tool_name = Some("read_file")

\* ------------------------------------------------------------------- C25
\* A finished interactive request of a category in the request table, other
\* than tool.
TableAsk ==
    /\ HasMessage
    /\ ~Message.partial
    /\ Message.type = "ask"
    /\ Message.ask \in DOMAIN AskPlaceholder

\* The call returned one event holding exactly one text part with this text.
OneTextPart(text) ==
    /\ Len(ReturnedEvents) = 1
    /\ ReturnedEvents[1].type = "message"
    /\ Len(PartsOf(1)) = 1
    /\ DOMAIN PartsOf(1)[1] = {"text"}
    /\ PartsOf(1)[1].text = text

\* C25 as claimed -- every non-partial interactive request of a table
\* category other than tool yields exactly one text part: the message text
\* when the message has one, the category's fixed fallback otherwise.
C25_AskAlwaysText ==
    TableAsk =>
        OneTextPart(IF Message.text # None THEN Message.text[1]
                    ELSE AskPlaceholder[Message.ask])

\* C25 -- transformMessageEvent of part_002 maps every non-partial
\* interactive request of a table category other than tool to exactly one
\* text part, holding the message text when that is a non-empty string and the
\* category's fixed fallback otherwise; transformMessageEvent of
\* EventTransformer.ts discards every such request and returns no event.
C25_AskTextOrDiscarded ==
    TableAsk =>
        IF evOut.called = "full"
        THEN OneTextPart(IF Truthy(Message.text) THEN Message.text[1]
                         ELSE AskPlaceholder[Message.ask])
        ELSE ReturnedEvents = <<>>

\* A command request without text, mapped by part_002 to the fallback of the
\* command category.
C25_Witness ==
    /\ TableAsk
    /\ evOut.called = "full"
    /\ Message.ask = "command"
    /\ Message.text = None
    /\ OneTextPart("Permission request to execute command")

\* ------------------------------------------------------------------- C26
\* C26: the bound port is recorded: in the step in which start() resolves,
\* the listener is bound to the port just probed and config.port is set to
\* that port, whatever the configured preference was; every step that leaves
\* start() unresolved (probing further, or rejecting) leaves config.port as it
\* was.
C26_BoundPortRecorded ==
    [][ /\ (startPc # "resolved" /\ startPc' = "resolved") =>
              /\ httpListening'
              /\ boundPort' = portToTry
              /\ config'.port = boundPort'
        /\ startPc' # "resolved" => config'.port = config.port ]_vars

\* start() resolved on a port above the preferred one, which was in use, and
\* config.port now names the bound port.
C26_Witness ==
    /\ startPc = "resolved"
    /\ Len(probed) >= 2
    /\ boundPort = Last(probed)
    /\ boundPort # Preferred
    /\ config.port = boundPort

\* ------------------------------------------------------------------- C27
\* C27: a bind error other than an address-in-use conflict is not retried: the
\* step that handles it rejects start() with that error and probes no further
\* port, even when higher ports of the range are free; and start() is rejected
\* with a bind error only when the last port probed gave such an error.
C27_BindErrorNotRetried ==
    [][ /\ (startPc = "probing" /\ portStatus[portToTry] = "denied") =>
              /\ startPc' = "rejected"
              /\ startError' = "bind"
              /\ probed' = probed
              /\ ~httpListening' /\ boundPort' = 0
        /\ startError' = "bind" =>
              /\ startPc' = "rejected"
              /\ portStatus[Last(probed')] = "denied" ]_vars

\* start() was rejected with a bind error on a port below the range's
\* maximum while the next port of the range was free.
C27_Witness ==
    /\ startPc = "rejected"
    /\ startError = "bind"
    /\ config.portRange # NoRange
    /\ Last(probed) < config.portRange.max
    /\ portStatus[Last(probed) + 1] = "free"
    /\ ~httpListening

\* ------------------------------------------------------------------- C28
\* The frame the newest logged firing wrote to c, if it wrote one (primed:
\* evaluated in the state after the firing).
BeatFired == Len(emitted') = Len(emitted) + 1

BeatEvent == Last(emitted').streamEvent[1]

BeatFrameWritten(c) ==
    /\ Len(delivered'[c]) = Len(delivered[c]) + 1
    /\ delivered'[c] = Append(delivered[c], Last(delivered'[c]))
    /\ Last(delivered'[c]).emit = Len(emitted')
    /\ Last(delivered'[c]).events = <<BeatEvent>>

\* What every firing does, whoever receives it: one broadcastEvent call over
\* the registry of that moment, of one event of type "heartbeat" without
\* task_id whose data carries the current time.
BeatShape ==
    /\ lastOp'.kind = "broadcast"
    /\ lastOp'.type = "heartbeat"
    /\ lastOp'.before = connections
    /\ BeatEvent.type = "heartbeat"
    /\ "task_id" \notin DOMAIN BeatEvent
    /\ BeatEvent.data.timestamp \in Times
    /\ BeatEvent.data.timestamp >= BeatEvent.timestamp

\* C28 as claimed -- every firing of the heartbeat interval writes the
\* heartbeat to every connection registered at that moment.
C28_HeartbeatToAllRegistered ==
    [][ BeatFired =>
          /\ BeatShape
          /\ \A c \in Range(connections) : BeatFrameWritten(c) ]_vars

\* C28 -- while the heartbeat timer is armed, every firing of the interval
\* makes exactly one broadcast of one "heartbeat"-typed Stream Event with no
\* task_id and with data carrying the current time; its frame is written,
\* once, to every connection registered at that moment whose socket is open
\* and accepts the write, and to no other socket; so k firings make k
\* heartbeat broadcasts.
C28_HeartbeatCadence ==
    [][ BeatFired =>
          /\ heartbeatTimer # 0
          /\ BeatShape
          /\ \A c \in Conns :
                IF Reachable(c) THEN BeatFrameWritten(c)
                ELSE delivered'[c] = delivered[c] ]_vars

\* Two firings were logged; the second reached both connections, the first
\* fired before anyone was registered.
C28_Witness ==
    /\ Len(emitted) = 2
    /\ emitted[1].registered = <<>>
    /\ Len(emitted[2].registered) = 2
    /\ \A c \in Conns : Len(delivered[c]) = 1 /\ delivered[c][1].emit = 2
    /\ lastOp.kind = "broadcast" /\ lastOp.type = "heartbeat"

\* ------------------------------------------------------------------- C29
\* C29: updateConfig has no transport effect: the call replaces the fields of
\* the configuration that the argument names and leaves its other fields as
\* they were; the listener and its bound port, the WebSocket server, the
\* start() and stop() calls in progress, the registry and its sockets, the
\* command handler and the running heartbeat timer with its interval are
\* unchanged.
C29_UpdateConfigNoTransportEffect ==
    [][lastOp'.kind = "updateConfig" =>
          /\ \A f \in DOMAIN config :
                config'[f] = IF f \in DOMAIN lastOp'.newConfig
                             THEN lastOp'.newConfig[f] ELSE config[f]
          /\ UNCHANGED <<httpListening, boundPort, wssState, startPc, portToTry,
                         probed, startError, stops, connections, ws, fault,
                         taskCommandHandler, heartbeatTimer, cmds>>]_vars

\* updateConfig named another port and another heartbeat interval on a
\* started server with a registered connection and a handler: the listener
\* stays on its port and the timer keeps the interval it was armed with.
C29_Witness ==
    /\ lastOp.kind = "updateConfig"
    /\ DOMAIN lastOp.newConfig = {"port", "heartbeatInterval"}
    /\ httpListening
    /\ boundPort # config.port
    /\ heartbeatTimer # 0
    /\ heartbeatTimer # config.heartbeatInterval
    /\ connections # <<>>
    /\ taskCommandHandler

\* ------------------------------------------------------------------- C30
Registered(c) == c \in Range(connections)

\* c is registered after the step (primed).
RegisteredNext(c) == c \in Range(connections')

\* The step is a stop() call.
StopCalled == Len(stops') = Len(stops) + 1

\* C30: registry membership follows the transport lifecycle.  A connection
\* enters the registry only in the step of its transport-level connect (its
\* socket did not exist before), so one that left is never re-added; it
\* leaves only in the step of its close event, of its error event, of a
\* broadcast whose write to it threw, or of a stop() call; each close event,
\* failed broadcast write and stop() call does remove it; and every
\* registered connection is listed once, with a socket that has connected and
\* has not closed.
C30_RegistryFollowsTransport ==
    /\ [](\A c \in Conns :
            Registered(c) =>
               /\ ws[c] \in {"OPEN", "CLOSING", "PEER_CLOSING"}
               /\ Cardinality({i \in 1..Len(connections) : connections[i] = c}) = 1)
    /\ [][\A c \in Conns :
            /\ (~Registered(c) /\ RegisteredNext(c)) =>
                  (ws[c] = "none" /\ ws'[c] = "OPEN")
            /\ (Registered(c) /\ ~RegisteredNext(c)) =>
                  \/ ws'[c] = "CLOSED"
                  \/ ws'[c] = "PEER_CLOSING" /\ connections' = Remove(connections, c)
                  \/ lastOp'.kind = "broadcast" /\ c \in lastOp'.threw
                  \/ StopCalled
            /\ (ws[c] # "CLOSED" /\ ws'[c] = "CLOSED") => ~RegisteredNext(c)
            /\ (lastOp'.kind = "broadcast" /\ c \in lastOp'.threw) => ~RegisteredNext(c)
            /\ StopCalled => ~RegisteredNext(c)]_vars

\* One connection has had its close event and is out of the registry while
\* its socket stays closed; a later one is registered and open.
C30_Witness ==
    \E c, d \in Conns :
        /\ c # d
        /\ ws[c] = "CLOSED" /\ ~Registered(c)
        /\ ws[d] = "OPEN" /\ Registered(d)
        /\ connections = <<d>>


\* ============================================================ connection ids
\* generateConnectionId(): conn_<Date.now()>_<nine base-36 digits of Math.random()>
GenerateConnectionId(now, suffix) == "conn_" \o ToString(now) \o "_" \o suffix

\* The registry as the Map it is: connections lists the registered sockets in
\* the insertion order of their keys, and the key of an entry is the id its
\* socket's handlers captured.
HasKey(id) == \E i \in 1..Len(connections) : connIds[connections[i]] = id

\* this.connections.set(connectionId, connection) for socket c: a new key is
\* appended, an existing key keeps its place and gets the new value.
MapSet(id, c) ==
    IF HasKey(id)
    THEN [i \in 1..Len(connections) |->
             IF connIds[connections[i]] = id THEN c ELSE connections[i]]
    ELSE Append(connections, c)

\* this.connections.delete(connectionId)
MapDelete(id) == SelectSeq(connections, LAMBDA d : connIds[d] # id)

\* wss.on("connection") with the id drawn as generateConnectionId draws it:
\* the clock's reading and the random suffix are the environment's choice.
AcceptConnection(c) ==
    /\ httpListening
    /\ wssState = "running"
    /\ ws[c] = "none"
    /\ \A d \in Conns : d < c => ws[d] # "none"
    /\ \E now \in Times, suffix \in Suffixes :
          /\ connIds' = [connIds EXCEPT ![c] = GenerateConnectionId(now, suffix)]
          /\ connections' = MapSet(GenerateConnectionId(now, suffix), c)
    /\ ws' = [ws EXCEPT ![c] = "OPEN"]
    /\ lastOp' = [kind |-> "accept", conn |-> c]
    /\ UNCHANGED <<config, portStatus, api, httpListening, boundPort, wssState, startPc,
                   portToTry, probed, startError, stops, heartbeatTimer,
                   taskCommandHandler, fault, cmds, msgIn, evOut, emitted, delivered>>

\* ws.on("close") of socket c: this.connections.delete(connectionId), the id
\* being the one captured when c was accepted.
CloseConnection(c) ==
    /\ ws[c] \in {"OPEN", "CLOSING", "PEER_CLOSING"}
    /\ ws' = [ws EXCEPT ![c] = "CLOSED"]
    /\ connections' = MapDelete(connIds[c])
    /\ lastOp' = [kind |-> "close", conn |-> c]
    /\ UNCHANGED <<config, portStatus, apiVars, httpListening, boundPort, wssState, startPc,
                   portToTry, probed, startError, stops, heartbeatTimer,
                   taskCommandHandler, fault, cmds, msgIn, evOut, emitted, delivered>>

\* ws.on("error") of socket c: this.connections.delete(connectionId).
ErrorConnection(c) ==
    /\ ws[c] \in {"OPEN", "CLOSING", "PEER_CLOSING"}
    /\ ws' = [ws EXCEPT ![c] = "PEER_CLOSING"]
    /\ connections' = MapDelete(connIds[c])
    /\ lastOp' = [kind |-> "close", conn |-> c]
    /\ UNCHANGED <<config, portStatus, apiVars, httpListening, boundPort, wssState, startPc,
                   portToTry, probed, startError, stops, heartbeatTimer,
                   taskCommandHandler, fault, cmds, msgIn, evOut, emitted, delivered>>

\* SpecIds: connections accepted and closed with their ids drawn, and the
\* host's broadcasts to the registry they leave.
NextIds ==
    \/ Start
    \/ OnListening
    \/ OnError
    \/ \E c \in Conns : AcceptConnection(c)
    \/ \E c \in Conns : PeerClosing(c)
    \/ \E c \in Conns : CloseConnection(c)
    \/ \E c \in Conns : ErrorConnection(c)
    \/ \E c \in Conns : TransportFault(c)
    \/ \E ser \in BOOLEAN : HostBroadcast(ser)

SpecIds == Init /\ [][NextIds]_vars

\* --------------------------------------------------------------------- C31
\* The sockets accepted so far.
Accepted == {c \in Conns : connIds[c] # "none"}

\* C31 (as stated): the ids of the accepted connections are pairwise different;
\* accepting a connection leaves every entry of the registry in place, and a
\* close or error of one connection removes no other connection's entry.
C31_ConnectionIdsUnique ==
    /\ [](\A c, d \in Accepted : c # d => connIds[c] # connIds[d])
    /\ [][/\ lastOp'.kind = "accept"
             => \A d \in Range(connections) : d \in Range(connections')
          /\ lastOp'.kind = "close"
             => \A d \in Range(connections) :
                   d # lastOp'.conn => d \in Range(connections')]_vars


SpecLife == InitStart /\ [][Lifecycle]_vars

\* The lifecycle phase of the instance, read off its state: Starting while a
\* bind is outstanding; Stopping from a stop() call until every stop() has
\* resolved; otherwise Listening when the listener is bound, Stopped when not.
Phase ==
    IF startPc = "probing" THEN "Starting"
    ELSE IF \E k \in 1..Len(stops) : stops[k].pc # "resolved" THEN "Stopping"
    ELSE IF httpListening THEN "Listening"
    ELSE "Stopped"

\* The phase reached by the step.
PhaseNext ==
    IF startPc' = "probing" THEN "Starting"
    ELSE IF \E k \in 1..Len(stops') : stops'[k].pc # "resolved" THEN "Stopping"
    ELSE IF httpListening' THEN "Listening"
    ELSE "Stopped"

\* The transitions the lifecycle names.
NamedTransitions ==
    {<<"Stopped", "Starting">>, <<"Starting", "Starting">>,
     <<"Starting", "Listening">>, <<"Starting", "Stopped">>,
     <<"Listening", "Stopping">>, <<"Stopping", "Stopped">>}

\* A connection was registered by the step.
Registers == \E c \in Conns : c \notin Range(connections) /\ c \in Range(connections')

\* stop() has no precondition: called on an instance that is not listening
\* (never started, start failed, stopped before) it runs its teardown all the
\* same, and called while a port is probed it completes once the bind's
\* outcome has arrived.
StopTransitions == {<<"Stopped", "Stopping">>, <<"Starting", "Stopping">>}

MaxInst == 3
MaxCall == 3

\* new StreamingServer(...): the constructor arms the heartbeat timer; nothing
\* listens yet.
NewInstance == [timer |-> TRUE, listen |-> "idle"]

\* this.streamingServer.stop(), its synchronous part, on instance i.
InstanceStopSync(i) == [api.instances EXCEPT ![i].timer = FALSE]

\* The calls of initializeStreamingServer that have not constructed yet.
PendingInitialize ==
    {k \in 1..Len(api.calls) :
        api.calls[k].op = "initialize" /\ api.calls[k].pc # "done"}

\* initializeStreamingServer(config), up to its first await:
\*   if (this.streamingServer) await this.stopStreamingServer()
\*   this.streamingServer = new StreamingServer(...)
\* With no instance referenced nothing is awaited and the call completes.
ApiInitialize ==
    /\ Len(api.instances) + Cardinality(PendingInitialize) < MaxInst
    /\ IF api.ref = 0
       THEN api' = [api EXCEPT !.instances = Append(@, NewInstance),
                               !.ref = Len(api.instances) + 1]
       ELSE /\ Len(api.calls) < MaxCall
            /\ api' = [api EXCEPT
                  !.instances = InstanceStopSync(api.ref),
                  !.calls = Append(@, [op |-> "initialize", pc |-> "awaitStop",
                                       inst |-> api.ref, cleared |-> 0])]
    /\ UNCHANGED <<serverVars, transformVars, pipeVars, connIds>>

\* stopStreamingServer(), and dispose() which awaits it, up to the await:
\*   if (this.streamingServer) { try { await this.streamingServer.stop() } ... }
ApiStop(op) ==
    /\ api.ref # 0
    /\ Len(api.calls) < MaxCall
    /\ api' = [api EXCEPT
          !.instances = InstanceStopSync(api.ref),
          !.calls = Append(@, [op |-> op, pc |-> "awaitStop",
                               inst |-> api.ref, cleared |-> 0])]
    /\ UNCHANGED <<serverVars, transformVars, pipeVars, connIds>>

\* startStreamingServer(), up to the await: await this.streamingServer.start().
\* The host starts an instance once, and not after it has called stop() on it.
ApiStart ==
    /\ api.ref # 0
    /\ api.instances[api.ref] = NewInstance
    /\ Len(api.calls) < MaxCall
    /\ api' = [api EXCEPT
          !.instances[api.ref].listen = "binding",
          !.calls = Append(@, [op |-> "start", pc |-> "awaitStart",
                               inst |-> api.ref, cleared |-> 0])]
    /\ UNCHANGED <<serverVars, transformVars, pipeVars, connIds>>

\* The promise of start() settles: the listener is bound, or start() rejected.
ApiStartSettled(k, ok) ==
    /\ k \in 1..Len(api.calls)
    /\ api.calls[k].pc = "awaitStart"
    /\ api' = [api EXCEPT
          !.instances[api.calls[k].inst].listen = IF ok THEN "bound" ELSE "failed",
          !.calls[k].pc = "done"]
    /\ UNCHANGED <<serverVars, transformVars, pipeVars, connIds>>

\* The promise of stop() resolves (the listener is closed by then; a bind in
\* progress reports first) and the call resumes: the finally block of
\* stopStreamingServer (this.streamingServer = undefined, whatever it names by
\* then), and for initializeStreamingServer the construction of the new
\* instance.
ApiStopResolved(k) ==
    /\ k \in 1..Len(api.calls)
    /\ api.calls[k].pc = "awaitStop"
    /\ api.instances[api.calls[k].inst].listen # "binding"
    /\ LET inst == api.calls[k].inst
           closed == [api.instances EXCEPT
                         ![inst].listen = IF @ = "bound" THEN "closed" ELSE @]
       IN api' = [ref |-> IF api.calls[k].op = "initialize"
                          THEN Len(closed) + 1 ELSE 0,
                  instances |-> IF api.calls[k].op = "initialize"
                                THEN Append(closed, NewInstance) ELSE closed,
                  calls |-> [api.calls EXCEPT
                                ![k].pc = "done",
                                ![k].cleared = api.ref]]
    /\ UNCHANGED <<serverVars, transformVars, pipeVars, connIds>>

\* SpecApi: the API's server-management methods called in any order, each call
\* free to overlap the ones still awaiting.
NextApi ==
    \/ ApiInitialize
    \/ \E op \in {"stop", "dispose"} : ApiStop(op)
    \/ ApiStart
    \/ \E k \in 1..MaxCall, ok \in BOOLEAN : ApiStartSettled(k, ok)
    \/ \E k \in 1..MaxCall : ApiStopResolved(k)

SpecApi == Init /\ [][NextApi]_vars

\* --------------------------------------------------------------------- C34
\* Instance i holds a resource: its heartbeat timer is armed or its listener
\* is binding or bound.
Running(i) ==
    api.instances[i].timer \/ api.instances[i].listen \in {"binding", "bound"}

\* C34 (as stated): every instance that is running is the one the API
\* references, and the finally block of a stopStreamingServer call clears no
\* reference other than the one to the instance the call stopped.
C34_SingleLiveServer ==
    /\ \A i \in 1..Len(api.instances) : Running(i) => api.ref = i
    /\ \A k \in 1..Len(api.calls) :
          api.calls[k].cleared \in {0, api.calls[k].inst}


\* --------------------------------------------------------------------- C35
\* C35 (as stated): with a port range [min,max] configured and the preferred
\* port in use, the port start() ends up bound to lies within [min,max],
\* whatever the preferred port, one below min or above max included.
C35_BoundInsideBand ==
    LET r == config.portRange
    IN (startPc = "resolved" /\ r # NoRange /\ portStatus[Preferred] = "inuse")
          => r.min <= boundPort /\ boundPort <= r.max


\* --------------------------------------------------------------------- C36
\* The step handed a taskCommand frame to the command handler.
Forwarded ==
    /\ Len(cmds') = Len(cmds) + 1
    /\ Last(cmds').state = "pending"

\* C36 (as stated): a connection that is absent from the registry has a
\* transport that is not open, and every taskCommand frame forwarded to the
\* command handler comes from a registered connection.
C36_NoOpenUnregisteredPeer ==
    /\ [](\A c \in Conns : ws[c] = "OPEN" => c \in Range(connections))
    /\ [][Forwarded => Last(cmds').conn \in Range(connections)]_vars


\* --------------------------------------------------------------------- C37
\* C37 (as stated): a broadcast removes a connection from the registry only
\* when the write to that connection's own transport fails (the socket is open
\* and its transport throws), so an event that cannot be serialized removes no
\* connection with a healthy transport; a registered connection whose socket
\* is not open is written nothing and stays registered.
C37_EvictionPerPeer ==
    [][lastOp'.kind = "broadcast" =>
          \A c \in Range(connections) :
              /\ c \notin Range(connections') => (ws[c] = "OPEN" /\ fault[c])
              /\ ws[c] # "OPEN" =>
                    (c \in Range(connections') /\ lastOp'.writes[c] = 0)]_vars


\* --------------------------------------------------------------------- C38
\* The commands whose handling finished in the step: a frame answered at once
\* for want of a handler, or a handler that settled.
FinishedNow ==
    {k \in 1..Len(cmds') :
        /\ cmds'[k].state = "done"
        /\ k > Len(cmds) \/ cmds[k].state = "pending"}

\* C38: every taskCommand frame is answered by at most one frame, a
\* taskCommandAck or an error, written to the connection the command came
\* from; a finished command's frames never change; and a command whose
\* connection is not registered when its handling finishes is answered by no
\* frame at all.
C38_AtMostOneResponse ==
    /\ [](\A k \in 1..Len(cmds) :
             /\ Len(cmds[k].writes) <= 1
             /\ \A i \in 1..Len(cmds[k].writes) :
                   /\ cmds[k].writes[i].to = cmds[k].conn
                   /\ cmds[k].writes[i].type \in {"taskCommandAck", "error"})
    /\ [][/\ \A k \in 1..Len(cmds) :
                cmds[k].state = "done" => cmds'[k] = cmds[k]
          /\ \A k \in FinishedNow :
                cmds'[k].conn \notin Range(connections) => cmds'[k].writes = <<>>]_vars

\* Two commands of one client overlapped; the first was acknowledged, and the
\* second, whose handler resolved after a broadcast had dropped the client
\* from the registry, was answered by nothing although the socket is open and
\* its transport healthy.
C38_Witness ==
    /\ Len(cmds) = 2
    /\ cmds[1].conn = cmds[2].conn
    /\ cmds[1].outcome = "ok" /\ Len(cmds[1].writes) = 1
    /\ cmds[2].state = "done" /\ cmds[2].outcome = "ok" /\ cmds[2].writes = <<>>
    /\ ws[cmds[2].conn] = "OPEN"
    /\ ~fault[cmds[2].conn]
    /\ cmds[2].conn \notin Range(connections)


\* --------------------------------------------------------------------- C39
\* SpecStartFair: start() alone, every bind started by server.listen()
\* reporting its outcome ('listening' or 'error') in the end.
SpecStartFair ==
    InitStart /\ [][NextStart]_vars /\ WF_vars(OnListening) /\ WF_vars(OnError)

\* Every bind attempt is on a higher port than the one before it.
AttemptsIncrease == \A i \in 2..Len(probed) : probed[i] > probed[i - 1]

\* Without a range, a start() that was called made exactly one attempt.
OneAttemptWithoutRange ==
    (config.portRange = NoRange /\ startPc # "idle") => Len(probed) = 1

\* C39 (as stated): a start() that was called resolves or rejects in the end;
\* with a range it makes at most max - preferred + 1 attempts, each on a
\* higher port than the one before; without a range it makes exactly one.
C39_StartWithinRangeAttempts ==
    /\ (startPc = "probing") ~> StartSettled
    /\ [](/\ AttemptsIncrease
          /\ OneAttemptWithoutRange
          /\ (config.portRange # NoRange /\ startPc # "idle")
                => Len(probed) <= config.portRange.max - Preferred + 1)

\* C39 (amended): as above, the attempts with a range being at most
\* max - preferred + 1 and, when the preferred port lies above max, one.
C39_StartTerminates ==
    /\ (startPc = "probing") ~> StartSettled
    /\ [](/\ AttemptsIncrease
          /\ OneAttemptWithoutRange
          /\ (config.portRange # NoRange /\ startPc # "idle")
                => Len(probed) <= IF Preferred > config.portRange.max THEN 1
                                  ELSE config.portRange.max - Preferred + 1)

\* start() settled after probing every port from the preferred one to the
\* range's maximum, three of them: max - preferred + 1 attempts.
C39_Witness ==
    /\ StartSettled
    /\ config.portRange # NoRange
    /\ Len(probed) = 3
    /\ Len(probed) = config.portRange.max - Preferred + 1


\* --------------------------------------------------------------------- C40
\* SpecQuiet: the server receiving task commands while the host broadcasts
\* events, serializable or not, before and after stop().
NextQuiet ==
    \/ Lifecycle
    \/ \E ser \in BOOLEAN : HostBroadcast(ser)
    \/ SetTaskCommandHandler
    \/ \E c \in Conns, n \in CommandNames : TaskCommandFrame(c, n)
    \/ \E k \in CmdIds, ok \in BOOLEAN : HandlerDone(k, ok)

SpecQuiet == Init /\ [][NextQuiet]_vars

\* The step wrote no frame: a broadcast or heartbeat of the step wrote to no
\* socket, and no command got a reply frame.
NoFrameWritten ==
    /\ lastOp'.kind = "broadcast" => \A c \in Conns : lastOp'.writes[c] = 0
    /\ \A k \in 1..Len(cmds') :
          cmds'[k].writes = IF k <= Len(cmds) THEN cmds[k].writes ELSE <<>>

\* C40: once stop() has been called, no step writes a frame to any
\* connection: no broadcast event, no heartbeat, and no taskCommandAck or
\* error, the replies to commands whose handler was still running when stop()
\* was called included.
C40_SilenceAfterStop ==
    [][stops # <<>> => NoFrameWritten]_vars

\* After stop() closed a client's socket, the handler of a command of that
\* client resolved and nothing was written for it, and then the host
\* broadcast a serializable event, which reached no socket.
C40_Witness ==
    /\ stops # <<>>
    /\ lastOp.kind = "broadcast"
    /\ lastOp.serializable
    /\ \A c \in Conns : lastOp.writes[c] = 0
    /\ \E k \in 1..Len(cmds) :
          /\ cmds[k].state = "done"
          /\ cmds[k].outcome = "ok"
          /\ cmds[k].writes = <<>>
          /\ ws[cmds[k].conn] = "CLOSING"
          /\ ~fault[cmds[k].conn]

====
